---- MODULE Spec2Model ----
(***************************************************************************)
(* A model of the CSVT library (lostandfound/csvt): the field splitter,    *)
(* the header parser, the type validator, the eager parser parseCsvt, the  *)
(* streaming parser parseCsvtStream and the writer writeCsvt.              *)
(*                                                                         *)
(* Text is a sequence of one-character strings.  The type keywords of a    *)
(* header ("number", "string", ...) are kept as single symbols of the      *)
(* text: nothing in the code looks inside a keyword except toLowerCase     *)
(* and the comparison with the known type names.                           *)
(***************************************************************************)
EXTENDS Integers, Sequences, FiniteSets, TLC

QUOTE == "\""
COMMA == ","
LF == "\n"
CR == "\r"
COLON == ":"
BANG == "!"
SPACE == " "

\* ------------------------------------------------------------------ bounds

\* Longest data text (characters after the header line) the source delivers
\* in the row-assembly specification.
MaxData == 4

\* Longest data text the source delivers in the reconstruction specification.
MaxQuoted == 5

\* Longest raw field handed to validateAndConvert on its own.
MaxRaw == 2

\* Most rows handed to writeCsvt.
MaxRows == 2

\* Longest column name handed to the header writer.
MaxName == 2

\* Longest header line handed to parseHeaderLine on its own.
MaxHeader == 4

\* Most rows in the source of a writeCsvtStream call.
MaxSourceRows == 5

\* The longest text of values and separators from which the lists of values
\* handed to the field round trip are cut.
MaxJoined == 4

\* ------------------------------------------------------- string primitives

Last(s) == s[Len(s)]

Front(s) == SubSeq(s, 1, Len(s) - 1)

\* String.prototype.includes for a single character.
Includes(s, c) == \E i \in 1..Len(s) : s[i] = c

\* The characters String.prototype.trim removes (those the model's texts hold).
IsWhitespace(c) == c \in {SPACE, "\t", LF, CR}

RECURSIVE TrimStart(_)
TrimStart(s) ==
    IF s # <<>> /\ IsWhitespace(Head(s)) THEN TrimStart(Tail(s)) ELSE s

RECURSIVE TrimEnd(_)
TrimEnd(s) ==
    IF s # <<>> /\ IsWhitespace(Last(s)) THEN TrimEnd(Front(s)) ELSE s

Trim(s) == TrimEnd(TrimStart(s))

\* String.prototype.replace(/""/g, '"'): leftmost, non-overlapping pairs.
RECURSIVE UnescapeQuotes(_)
UnescapeQuotes(s) ==
    IF Len(s) < 2 THEN s
    ELSE IF s[1] = QUOTE /\ s[2] = QUOTE
         THEN <<QUOTE>> \o UnescapeQuotes(SubSeq(s, 3, Len(s)))
         ELSE <<s[1]>> \o UnescapeQuotes(Tail(s))

\* String.prototype.replace(/"/g, '""').
RECURSIVE DoubleQuotes(_)
DoubleQuotes(s) ==
    IF s = <<>> THEN <<>>
    ELSE (IF Head(s) = QUOTE THEN <<QUOTE, QUOTE>> ELSE <<Head(s)>>)
         \o DoubleQuotes(Tail(s))

\* All sequences over S of length at most n.
RECURSIVE SeqsUpTo(_, _)
SeqsUpTo(S, n) ==
    IF n = 0 THEN {<<>>}
    ELSE LET shorter == SeqsUpTo(S, n - 1)
         IN  shorter \cup {Append(t, c) : t \in {u \in shorter : Len(u) = n - 1}, c \in S}

\* ---------------------------------------------------------- field splitter

\* The loop of splitCsvLine from character i on (1-based; startIndex too).
RECURSIVE splitScan(_, _, _, _, _, _, _)
splitScan(line, delimiter, i, fields, currentField, inQuotes, startIndex) ==
    IF i > Len(line)
    THEN [fields |-> Append(fields, currentField), inQuotes |-> inQuotes]
    ELSE LET char == line[i] IN
         IF ~inQuotes
         THEN IF char = delimiter
              THEN splitScan(line, delimiter, i + 1, Append(fields, currentField),
                             <<>>, FALSE, i + 1)
              ELSE IF char = QUOTE /\ i = startIndex
              THEN splitScan(line, delimiter, i + 1, fields,
                             Append(currentField, QUOTE), TRUE, startIndex)
              ELSE splitScan(line, delimiter, i + 1, fields,
                             Append(currentField, char), FALSE, startIndex)
         ELSE IF char = QUOTE
              THEN IF i + 1 <= Len(line) /\ line[i + 1] = QUOTE
                   THEN splitScan(line, delimiter, i + 2, fields,
                                  currentField \o <<QUOTE, QUOTE>>, TRUE, startIndex)
                   ELSE splitScan(line, delimiter, i + 1, fields,
                                  Append(currentField, QUOTE), FALSE, startIndex)
              ELSE splitScan(line, delimiter, i + 1, fields,
                             Append(currentField, char), TRUE, startIndex)

\* splitCsvLine: the raw fields, or threw (unterminated quoted field).
splitCsvLine(line, delimiter) ==
    LET r == splitScan(line, delimiter, 1, <<>>, <<>>, FALSE, 1)
    IN  [fields |-> r.fields, threw |-> r.inQuotes]

cleanCsvField(field) ==
    IF Len(field) >= 2 /\ Head(field) = QUOTE /\ Last(field) = QUOTE
    THEN UnescapeQuotes(SubSeq(field, 2, Len(field) - 1))
    ELSE field

\* A faulty escape that encloses the value in quotes without doubling the
\* quotes inside it; the round trip through the splitter must tell it from
\* the code's.
escapeCsvField_quotesNotDoubled(value, delimiter) ==
    IF Includes(value, delimiter) \/ Includes(value, QUOTE)
       \/ Includes(value, LF) \/ Includes(value, CR)
    THEN <<QUOTE>> \o value \o <<QUOTE>>
    ELSE value

\* Escapes a value for CSV output: quoted, with its quotes doubled, when it
\* holds the delimiter, a quote or a line break.
escapeCsvField(value, delimiter) ==
    IF Includes(value, delimiter) \/ Includes(value, QUOTE)
       \/ Includes(value, LF) \/ Includes(value, CR)
    THEN <<QUOTE>> \o DoubleQuotes(value) \o <<QUOTE>>
    ELSE value

\* ------------------------------------------------------------ case mapping

UpperLetters == <<"A", "B", "C", "D", "E", "F", "G", "H", "I", "J", "K", "L", "M",
                  "N", "O", "P", "Q", "R", "S", "T", "U", "V", "W", "X", "Y", "Z",
                  "STRING", "NUMBER", "BOOL", "DATE", "DATETIME", "ARRAY", "OBJECT">>

LowerLetters == <<"a", "b", "c", "d", "e", "f", "g", "h", "i", "j", "k", "l", "m",
                  "n", "o", "p", "q", "r", "s", "t", "u", "v", "w", "x", "y", "z",
                  "string", "number", "bool", "date", "datetime", "array", "object">>

LowerChar(c) ==
    IF \E i \in DOMAIN UpperLetters : UpperLetters[i] = c
    THEN LowerLetters[CHOOSE i \in DOMAIN UpperLetters : UpperLetters[i] = c]
    ELSE c

\* String.prototype.toLowerCase.
ToLowerCase(s) == [i \in DOMAIN s |-> LowerChar(s[i])]

\* String.prototype.lastIndexOf for one character: 1-based, 0 when absent.
LastIndexOf(s, c) ==
    IF Includes(s, c) THEN CHOOSE i \in 1..Len(s) : s[i] = c /\ \A j \in (i + 1)..Len(s) : s[j] # c
    ELSE 0

\* ------------------------------------------------------------------ errors

\* The absence of an error (the optional `error` member left undefined).
NoError == [type |-> "none", row |-> 0, column |-> 0, msg |-> "none"]

\* A CsvtError: its kind, row, column (0 when the code sets none) and which
\* message it carries.
CsvtError(type, row, column, msg) ==
    [type |-> type, row |-> row, column |-> column, msg |-> msg]

\* ----------------------------------------------------------- header parser

knownTypes == {"string", "number", "bool", "date", "datetime", "array", "object"}

\* One pass of the field loop of parseHeaderLine: the header of raw field i,
\* or the error that field raises.
headerField(rawField, i) ==
    LET trimmedField == Trim(rawField)
        effectiveColonIndex == LastIndexOf(trimmedField, COLON)
    IN
    IF trimmedField = <<>> \/ trimmedField = <<QUOTE, QUOTE>>
    THEN [error |-> CsvtError("format", 1, i, "header name effectively empty")]
    ELSE IF effectiveColonIndex # 0
    THEN LET namePartRaw == SubSeq(trimmedField, 1, effectiveColonIndex - 1)
             typePart0 == Trim(SubSeq(trimmedField, effectiveColonIndex + 1, Len(trimmedField)))
             name == Trim(cleanCsvField(namePartRaw))
             isNonNull == typePart0 # <<>> /\ Last(typePart0) = BANG
             typePartRaw == IF isNonNull THEN Trim(Front(typePart0)) ELSE typePart0
             type == ToLowerCase(typePartRaw)
         IN
         IF typePartRaw = <<>>
         THEN [error |-> CsvtError("format", 1, i, "type specification missing")]
         ELSE IF Includes(typePartRaw, QUOTE) \/ Includes(typePartRaw, COLON)
         THEN [error |-> CsvtError("format", 1, i, "invalid characters in type")]
         ELSE IF ~(Len(type) = 1 /\ type[1] \in knownTypes)
         THEN [error |-> CsvtError("format", 1, i, "unknown data type")]
         ELSE IF name = <<>>
         THEN [error |-> CsvtError("format", 1, i, "header name missing")]
         ELSE [error |-> NoError,
               header |-> [name |-> name, type |-> type[1],
                           isNonNull |-> isNonNull, columnIndex |-> i]]
    ELSE LET bang == Last(trimmedField) = BANG /\ Len(trimmedField) > 1
             potentialNameRaw == IF bang THEN Front(trimmedField) ELSE trimmedField
             name == Trim(cleanCsvField(potentialNameRaw))
         IN
         IF name = <<>>
         THEN [error |-> CsvtError("format", 1, i, "header name missing")]
         ELSE [error |-> NoError,
               header |-> [name |-> name, type |-> "string",
                           isNonNull |-> bang, columnIndex |-> i]]

\* A faulty parseHeaderLine that keeps the headers of the fields that parse
\* and does not look for duplicate names; the property of the header result
\* must tell it from the code's.
parseHeaderLine_partial(headerLine) ==
    IF Trim(headerLine) = <<>>
    THEN [headers |-> <<>>, error |-> CsvtError("format", 1, 0, "Header line is empty")]
    ELSE IF splitCsvLine(headerLine, COMMA).threw
    THEN [headers |-> <<>>, error |-> CsvtError("format", 1, 0, "Unterminated quoted field")]
    ELSE LET parsed == [i \in DOMAIN splitCsvLine(headerLine, COMMA).fields |->
                           headerField(splitCsvLine(headerLine, COMMA).fields[i], i)]
             good == SelectSeq(parsed, LAMBDA r : r.error = NoError)
         IN  [headers |-> [i \in DOMAIN good |-> good[i].header],
              error |-> IF Len(good) < Len(parsed)
                        THEN CsvtError("format", 1, 0, "some field") ELSE NoError]

\* parseHeaderLine: the headers, or no headers and the first error.
parseHeaderLine(headerLine) ==
    IF Trim(headerLine) = <<>>
    THEN [headers |-> <<>>, error |-> CsvtError("format", 1, 0, "Header line is empty")]
    ELSE
    LET split == splitCsvLine(headerLine, COMMA) IN
    IF split.threw
    THEN [headers |-> <<>>, error |-> CsvtError("format", 1, 0, "Unterminated quoted field")]
    ELSE
    LET rawFields == split.fields
        parsed == [i \in DOMAIN rawFields |-> headerField(rawFields[i], i)]
        bad == {i \in DOMAIN rawFields : parsed[i].error # NoError}
        headers == [i \in DOMAIN rawFields |-> parsed[i].header]
    IN
    IF bad # {}
    THEN [headers |-> <<>>,
          error |-> parsed[CHOOSE i \in bad : \A j \in bad : i <= j].error]
    ELSE IF \E i, j \in DOMAIN headers : i < j /\ headers[i].name = headers[j].name
    THEN [headers |-> <<>>, error |-> CsvtError("format", 1, 0, "Duplicate header name")]
    ELSE [headers |-> headers, error |-> NoError]

\* ------------------------------------------------------------------ values

\* Typed values: null, strings (texts), numbers, booleans, arrays, objects.
NullValue == [t |-> "null"]

StringValue(text) == [t |-> "string", v |-> text]

NumberValue(n) == [t |-> "number", v |-> n]

BoolValue(b) == [t |-> "bool", v |-> b]

\* A JSON array of numbers.
ArrayValue(items) == [t |-> "array", v |-> items]

\* A JSON object; the model's objects have no members.
ObjectValue == [t |-> "object"]

\* What `value` holds when validateAndConvert returns an error.
Undefined == [t |-> "undefined"]

Digits == <<"0", "1", "2", "3", "4", "5", "6", "7", "8", "9">>

IsDigit(c) == \E i \in DOMAIN Digits : Digits[i] = c

DigitValue(c) == (CHOOSE i \in DOMAIN Digits : Digits[i] = c) - 1

AllDigits(s) == \A i \in DOMAIN s : IsDigit(s[i])

RECURSIVE DigitsValue(_)
DigitsValue(s) ==
    IF s = <<>> THEN 0 ELSE 10 * DigitsValue(Front(s)) + DigitValue(Last(s))

\* Number(text), for texts of whitespace, sign, decimal digits and other
\* characters that are no part of a numeric literal: surrounding whitespace
\* is dropped, the empty text is 0, an optionally signed run of digits is its
\* value and everything else is NaN.
Number(text) ==
    LET t == Trim(text)
        signed == t # <<>> /\ Head(t) \in {"+", "-"}
        digits == IF signed THEN Tail(t) ELSE t
    IN  IF t = <<>> THEN [nan |-> FALSE, v |-> 0]
        ELSE IF digits # <<>> /\ AllDigits(digits)
        THEN [nan |-> FALSE,
              v |-> IF signed /\ Head(t) = "-" THEN 0 - DigitsValue(digits)
                    ELSE DigitsValue(digits)]
        ELSE [nan |-> TRUE, v |-> 0]

\* /^\d{4}-\d{2}-\d{2}$/
isoDateRegex(s) ==
    /\ Len(s) = 10
    /\ \A i \in {1, 2, 3, 4, 6, 7, 9, 10} : IsDigit(s[i])
    /\ s[5] = "-" /\ s[8] = "-"

\* (Z|([+-])\d{2}:\d{2})$ from position i on.
zoneAt(s, i) ==
    \/ Len(s) = i /\ s[i] = "Z"
    \/ /\ Len(s) = i + 5
       /\ s[i] \in {"+", "-"}
       /\ IsDigit(s[i + 1]) /\ IsDigit(s[i + 2]) /\ s[i + 3] = COLON
       /\ IsDigit(s[i + 4]) /\ IsDigit(s[i + 5])

\* (\.\d+)?(Z|...)$ from position i on.
fractionAt(s, i) ==
    \/ zoneAt(s, i)
    \/ /\ Len(s) >= i + 1 /\ s[i] = "." /\ IsDigit(s[i + 1])
       /\ \E j \in (i + 2)..Len(s) :
            /\ \A k \in (i + 1)..(j - 1) : IsDigit(s[k])
            /\ zoneAt(s, j)

\* /^\d{4}-\d{2}-\d{2}T\d{2}:\d{2}(:\d{2})?(\.\d+)?(Z|([+-])\d{2}:\d{2})$/
isoDateTimeRegex(s) ==
    /\ Len(s) >= 17
    /\ isoDateRegex(SubSeq(s, 1, 10))
    /\ s[11] = "T"
    /\ IsDigit(s[12]) /\ IsDigit(s[13]) /\ s[14] = COLON
    /\ IsDigit(s[15]) /\ IsDigit(s[16])
    /\ \/ fractionAt(s, 17)
       \/ /\ Len(s) >= 20 /\ s[17] = COLON /\ IsDigit(s[18]) /\ IsDigit(s[19])
          /\ fractionAt(s, 20)

\* JSON.parse on the JSON texts of the model's values: an array of at most
\* one unsigned integer, the empty object, an unsigned integer, null; every
\* other text makes it throw.
JSONparse(text) ==
    LET t == Trim(text)
        inner == IF Len(t) >= 2 THEN Trim(SubSeq(t, 2, Len(t) - 1)) ELSE <<>>
    IN  IF Len(t) >= 2 /\ Head(t) = "[" /\ Last(t) = "]" /\ AllDigits(inner)
        THEN [threw |-> FALSE,
              value |-> ArrayValue(IF inner = <<>> THEN <<>> ELSE <<DigitsValue(inner)>>)]
        ELSE IF Len(t) >= 2 /\ Head(t) = "{" /\ Last(t) = "}" /\ inner = <<>>
        THEN [threw |-> FALSE, value |-> ObjectValue]
        ELSE IF t # <<>> /\ AllDigits(t)
        THEN [threw |-> FALSE, value |-> NumberValue(DigitsValue(t))]
        ELSE IF t = <<"n", "u", "l", "l">>
        THEN [threw |-> FALSE, value |-> NullValue]
        ELSE [threw |-> TRUE, value |-> Undefined]

\* ---------------------------------------------------------------- validator

\* The `switch (header.type)` of validateAndConvert, on a non-empty cleaned value.
convertByType(cleanedValue, header, rowNumber) ==
    LET typeError(msg) ==
            [value |-> Undefined,
             error |-> CsvtError("type", rowNumber, header.columnIndex, msg)]
        ok(v) == [value |-> v, error |-> NoError]
    IN
    CASE header.type = "string" -> ok(StringValue(cleanedValue))
      [] header.type = "number" ->
            LET num == Number(cleanedValue)
            IN  IF num.nan THEN typeError("Invalid number format") ELSE ok(NumberValue(num.v))
      [] header.type = "bool" ->
            LET lowerValue == ToLowerCase(cleanedValue) IN
            IF lowerValue = <<"t", "r", "u", "e">> \/ cleanedValue = <<"1">>
            THEN ok(BoolValue(TRUE))
            ELSE IF lowerValue = <<"f", "a", "l", "s", "e">> \/ cleanedValue = <<"0">>
            THEN ok(BoolValue(FALSE))
            ELSE typeError("Invalid boolean format")
      [] header.type = "date" ->
            IF isoDateRegex(cleanedValue) THEN ok(StringValue(cleanedValue))
            ELSE typeError("Invalid date format")
      [] header.type = "datetime" ->
            IF isoDateTimeRegex(cleanedValue) THEN ok(StringValue(cleanedValue))
            ELSE typeError("Invalid datetime format")
      [] header.type = "array" ->
            LET parsed == JSONparse(cleanedValue) IN
            IF ~parsed.threw /\ parsed.value.t = "array" THEN ok(parsed.value)
            ELSE typeError("Invalid array format")
      [] header.type = "object" ->
            LET parsed == JSONparse(cleanedValue) IN
            IF ~parsed.threw /\ parsed.value.t = "object" THEN ok(parsed.value)
            ELSE typeError("Invalid object format")
      [] OTHER ->
            [value |-> Undefined,
             error |-> CsvtError("format", 1, header.columnIndex, "Unknown data type")]

\* A validateAndConvert that returns the empty string for an empty field of a
\* nullable string column; the empty-field property must tell it from the
\* code's.
validateAndConvert_emptyString(rawValue, header, rowNumber) ==
    LET cleanedValue == cleanCsvField(rawValue) IN
    IF cleanedValue = <<>>
    THEN IF header.isNonNull
         THEN [value |-> Undefined,
               error |-> CsvtError("constraint", rowNumber, header.columnIndex,
                                   "Non-null constraint violation")]
         ELSE IF header.type = "string" THEN [value |-> StringValue(<<>>), error |-> NoError]
         ELSE [value |-> NullValue, error |-> NoError]
    ELSE convertByType(cleanedValue, header, rowNumber)

\* validateAndConvert: the converted value, or an error.
validateAndConvert(rawValue, header, rowNumber) ==
    LET cleanedValue == cleanCsvField(rawValue) IN
    IF cleanedValue = <<>>
    THEN IF header.isNonNull
         THEN [value |-> Undefined,
               error |-> CsvtError("constraint", rowNumber, header.columnIndex,
                                   "Non-null constraint violation")]
         ELSE [value |-> NullValue, error |-> NoError]
    ELSE convertByType(cleanedValue, header, rowNumber)

\* -------------------------------------------------------------- error modes

ErrorModes == {"strict", "collect", "substituteNull"}

\* A row object: the converted value under each column name.
RowObject(headers, values) ==
    [n \in {headers[i].name : i \in DOMAIN headers} |->
        values[CHOOSE i \in DOMAIN headers : headers[i].name = n]]

\* ------------------------------------------------------------- eager parser

\* csvtString.replace(/\r\n|\r/g, '\n')
RECURSIVE NormalizeLineEndings(_)
NormalizeLineEndings(text) ==
    IF text = <<>> THEN <<>>
    ELSE IF Head(text) = CR
    THEN <<LF>> \o NormalizeLineEndings(
            IF Len(text) >= 2 /\ text[2] = LF THEN SubSeq(text, 3, Len(text)) ELSE Tail(text))
    ELSE <<Head(text)>> \o NormalizeLineEndings(Tail(text))

\* String.prototype.split('\n'): at least one line, the pieces between the LFs.
RECURSIVE SplitLines(_)
SplitLines(text) ==
    IF ~Includes(text, LF) THEN <<text>>
    ELSE LET i == CHOOSE k \in 1..Len(text) : text[k] = LF /\ \A j \in 1..(k - 1) : text[j] # LF
         IN  <<SubSeq(text, 1, i - 1)>> \o SplitLines(SubSeq(text, i + 1, Len(text)))

\* A faulty first loop that rejects only lines with too few fields; the
\* field-count property must tell it from the code's.
splitDataLine_tooFewOnly(line, isLast, rowNumber, split, headers, errorMode, acc) ==
    IF line = <<>> /\ isLast THEN acc
    ELSE IF split.threw \/ Len(split.fields) < Len(headers)
    THEN IF errorMode = "strict"
         THEN [acc EXCEPT !.threw =
                 CsvtError("format", rowNumber, 0,
                           IF split.threw THEN "Unterminated quoted field" ELSE "Expected fields")]
         ELSE [acc EXCEPT !.errors =
                 Append(@, CsvtError("format", rowNumber, 0,
                           IF split.threw THEN "Unterminated quoted field" ELSE "Expected fields"))]
    ELSE [acc EXCEPT !.rawData = Append(@, split.fields)]

\* One pass of the first loop of parseCsvt, on line i (1-based over `lines`,
\* the header at 1, so rowNumber = i), given the line's split: the raw rows
\* kept so far, the format errors pushed so far, and the error thrown in
\* strict mode.
splitDataLine(line, isLast, rowNumber, split, headers, errorMode, acc) ==
    IF line = <<>> /\ isLast THEN acc
    ELSE IF split.threw \/ Len(split.fields) # Len(headers)
    THEN IF errorMode = "strict"
         THEN [acc EXCEPT !.threw =
                 CsvtError("format", rowNumber, 0,
                           IF split.threw THEN "Unterminated quoted field" ELSE "Expected fields")]
         ELSE [acc EXCEPT !.errors =
                 Append(@, CsvtError("format", rowNumber, 0,
                           IF split.threw THEN "Unterminated quoted field" ELSE "Expected fields"))]
    ELSE [acc EXCEPT !.rawData = Append(@, split.fields)]

\* The first loop of parseCsvt from line i on.
RECURSIVE splitDataLines(_, _, _, _, _)
splitDataLines(lines, headers, errorMode, i, acc) ==
    IF i > Len(lines) \/ acc.threw # NoError THEN acc
    ELSE splitDataLines(lines, headers, errorMode, i + 1,
            splitDataLine(lines[i], i = Len(lines), i, splitCsvLine(lines[i], COMMA),
                          headers, errorMode, acc))

\* A faulty column loop that in collect mode records the error but keeps the
\* row; the collect-mode property must tell it from the code's.
validateColumn_collectKeepsRow(header, validationResult, errorMode, acc) ==
    IF validationResult.error = NoError
    THEN [acc EXCEPT !.values = Append(@, validationResult.value)]
    ELSE IF errorMode = "strict"
    THEN [acc EXCEPT !.errors = Append(@, validationResult.error),
                     !.threw = validationResult.error]
    ELSE IF errorMode = "substituteNull"
            /\ header.isNonNull /\ validationResult.error.type = "constraint"
    THEN [acc EXCEPT !.errors = Append(@, validationResult.error), !.shouldSkipRow = TRUE]
    ELSE [acc EXCEPT !.errors = Append(@, validationResult.error),
                     !.values = Append(@, IF validationResult.error.type = "type"
                                          THEN NullValue ELSE Undefined)]

\* One pass of the column loop of parseCsvt, given the validation result of
\* the column: the values assigned, the errors pushed, whether the row is
\* skipped (the loop then breaks) and the error thrown in strict mode.
validateColumn(header, validationResult, errorMode, acc) ==
    IF validationResult.error = NoError
    THEN [acc EXCEPT !.values = Append(@, validationResult.value)]
    ELSE IF errorMode = "strict"
    THEN [acc EXCEPT !.errors = Append(@, validationResult.error),
                     !.threw = validationResult.error]
    ELSE IF errorMode = "substituteNull"
    THEN IF header.isNonNull /\ validationResult.error.type = "constraint"
         THEN [acc EXCEPT !.errors = Append(@, validationResult.error),
                          !.shouldSkipRow = TRUE]
         ELSE [acc EXCEPT !.errors = Append(@, validationResult.error),
                          !.values = Append(@, IF validationResult.error.type = "type"
                                               THEN NullValue ELSE Undefined)]
    ELSE [acc EXCEPT !.errors = Append(@, validationResult.error), !.shouldSkipRow = TRUE]

\* The column loop of parseCsvt for one raw row, from column colIndex on.
RECURSIVE validateColumns(_, _, _, _, _, _)
validateColumns(rowFields, headers, rowNumber, errorMode, colIndex, acc) ==
    IF colIndex > Len(headers) \/ acc.shouldSkipRow \/ acc.threw # NoError THEN acc
    ELSE validateColumns(rowFields, headers, rowNumber, errorMode, colIndex + 1,
            validateColumn(headers[colIndex],
                           validateAndConvert(rowFields[colIndex], headers[colIndex], rowNumber),
                           errorMode, acc))

\* What the second loop of parseCsvt does with a row once its columns are done.
validateRow(headers, row, acc) ==
    [data |-> IF row.shouldSkipRow \/ row.threw # NoError THEN acc.data
              ELSE Append(acc.data, RowObject(headers, row.values)),
     errors |-> row.errors,
     threw |-> row.threw]

\* The second loop of parseCsvt from raw row rowIndex on (1-based; the code's
\* rowNumber = rowIndex + 2 with a 0-based rowIndex).
RECURSIVE validateRows(_, _, _, _, _)
validateRows(rawData, headers, errorMode, rowIndex, acc) ==
    IF rowIndex > Len(rawData) \/ acc.threw # NoError THEN acc
    ELSE validateRows(rawData, headers, errorMode, rowIndex + 1,
            validateRow(headers,
                        validateColumns(rawData[rowIndex], headers, rowIndex + 1, errorMode, 1,
                                        [values |-> <<>>, errors |-> acc.errors,
                                         shouldSkipRow |-> FALSE, threw |-> NoError]),
                        acc))

\* The result object of parseCsvt, or (threw) the error whose message it throws.
ParsedResult(data, headers, errors) ==
    [data |-> data, headers |-> headers, errors |-> errors, threw |-> NoError]

Thrown(error) == [data |-> <<>>, headers |-> <<>>, errors |-> <<>>, threw |-> error]

\* parseCsvt after the second loop.
parseFinish(headers, phase2) ==
    IF phase2.threw # NoError THEN Thrown(phase2.threw)
    ELSE ParsedResult(phase2.data, headers, phase2.errors)

\* parseCsvt after the first loop.
parseValidate(headers, errorMode, phase1) ==
    IF phase1.threw # NoError THEN Thrown(phase1.threw)
    ELSE parseFinish(headers,
            validateRows(phase1.rawData, headers, errorMode, 1,
                         [data |-> <<>>, errors |-> phase1.errors, threw |-> NoError]))

\* parseCsvt after the header line is parsed.
parseData(lines, headerResult, errorMode) ==
    IF headerResult.error # NoError
    THEN IF errorMode = "strict" THEN Thrown(headerResult.error)
         ELSE ParsedResult(<<>>, <<>>, <<headerResult.error>>)
    ELSE parseValidate(headerResult.headers, errorMode,
            splitDataLines(lines, headerResult.headers, errorMode, 2,
                           [rawData |-> <<>>, errors |-> <<>>, threw |-> NoError]))

\* A faulty parseCsvt without the branch for empty input, which hands the
\* empty line to the header parser; the empty-input property must tell it
\* from the code's.
parseLines_noEmptyBranch(lines, errorMode) ==
    parseData(lines, parseHeaderLine(lines[1]), errorMode)

\* parseCsvt after the input is split into lines.
parseLines(lines, errorMode) ==
    IF Len(lines) = 1 /\ lines[1] = <<>>
    THEN IF errorMode = "strict" THEN Thrown(CsvtError("format", 1, 0, "Input is empty"))
         ELSE ParsedResult(<<>>, <<>>, <<CsvtError("format", 1, 0, "Input is empty")>>)
    ELSE parseData(lines, parseHeaderLine(lines[1]), errorMode)

\* parseCsvt: the result returned, or (threw) the error whose message is thrown.
parseCsvt(csvtString, errorMode) ==
    parseLines(SplitLines(NormalizeLineEndings(csvtString)), errorMode)

\* --------------------------------------------------------- streaming parser

\* The loop of findUnquotedNewlineIndex from character i on (1-based).
RECURSIVE newlineScan(_, _, _)
newlineScan(str, i, inQuotes) ==
    IF i > Len(str) THEN 0
    ELSE IF str[i] = QUOTE
    THEN IF inQuotes /\ i + 1 <= Len(str) /\ str[i + 1] = QUOTE
         THEN newlineScan(str, i + 2, inQuotes)
         ELSE newlineScan(str, i + 1, ~inQuotes)
    ELSE IF str[i] = LF /\ ~inQuotes THEN i
    ELSE newlineScan(str, i + 1, inQuotes)

\* findUnquotedNewlineIndex: the 1-based index of the first newline outside
\* quotes, 0 (the code's -1) when there is none.
findUnquotedNewlineIndex(str) == newlineScan(str, 1, FALSE)

\* One value yielded by parseCsvtStream.
Emission(data, headers, errors) == [data |-> data, headers |-> headers, errors |-> errors]

\* The locals of a parseCsvtStream call at its start.  `headers` is <<>> while
\* the code's is null (a parsed header list is never empty), headerError is
\* NoError while the code's is null; out is what has been yielded so far and
\* threw the error the generator ended with; releases counts the calls of
\* reader.releaseLock() on the reader that getReader() locked to the stream.
NewSession ==
    [pc |-> "read", buffer |-> <<>>, done |-> FALSE, headers |-> <<>>,
     headerError |-> NoError, rowNumber |-> 1, headerYielded |-> FALSE,
     out |-> <<>>, threw |-> NoError, releases |-> 0]

\* A faulty loop condition that takes a last line from the buffer at the end
\* of the source even when the buffer is empty; the empty-stream property
\* must tell it from the code's.
lineAvailable_atEndAlways(buffer, done) ==
    findUnquotedNewlineIndex(buffer) # 0 \/ done

\* The condition of the inner `while` of parseCsvtStream.
lineAvailable(buffer, done) ==
    findUnquotedNewlineIndex(buffer) # 0 \/ (done /\ buffer # <<>>)

\* A faulty outer loop without `if (done) break`, which goes back to
\* reader.read() after the end of the source; the termination property must
\* tell it from the code's.
nextPc_neverBreaks(buffer, done) ==
    IF lineAvailable(buffer, done) THEN "lines" ELSE "read"

\* Where the generator stands once a chunk is appended or a line is handled:
\* in the inner loop, back at reader.read(), or past the outer loop.
nextPc(buffer, done) ==
    IF lineAvailable(buffer, done) THEN "lines"
    ELSE IF done THEN "completed" ELSE "read"

\* A faulty column loop of the stream for which every error is fatal to the
\* row, a type error in a nullable column in substituteNull mode too; the
\* substitution property must tell it from the code's.
streamColumn_everyErrorFatal(header, validationResult, errorMode, acc) ==
    IF validationResult.error = NoError
    THEN [acc EXCEPT !.values = Append(@, validationResult.value)]
    ELSE IF errorMode = "strict"
    THEN [acc EXCEPT !.rowErrors = Append(@, validationResult.error),
                     !.threw = validationResult.error]
    ELSE [acc EXCEPT !.rowErrors = Append(@, validationResult.error),
                     !.values = Append(@, Undefined),
                     !.hasFatalErrorForRow = TRUE]

\* One pass of the column loop of parseCsvtStream, given the validation
\* result of the column.
streamColumn(header, validationResult, errorMode, acc) ==
    IF validationResult.error = NoError
    THEN [acc EXCEPT !.values = Append(@, validationResult.value)]
    ELSE IF errorMode = "strict"
    THEN [acc EXCEPT !.rowErrors = Append(@, validationResult.error),
                     !.threw = validationResult.error]
    ELSE IF errorMode = "substituteNull" /\ validationResult.error.type = "type"
            /\ ~header.isNonNull
    THEN [acc EXCEPT !.rowErrors = Append(@, validationResult.error),
                     !.values = Append(@, NullValue),
                     !.hasFatalErrorForRow = @ \/ validationResult.error.type = "constraint"]
    ELSE [acc EXCEPT !.rowErrors = Append(@, validationResult.error),
                     !.values = Append(@, Undefined),
                     !.hasFatalErrorForRow =
                        \/ @
                        \/ validationResult.error.type = "constraint"
                        \/ errorMode # "substituteNull"
                        \/ validationResult.error.type = "type" /\ header.isNonNull]

\* The column loop of parseCsvtStream from column i on.
RECURSIVE streamColumns(_, _, _, _, _, _)
streamColumns(rawFields, headers, rowNumber, errorMode, i, acc) ==
    IF i > Len(headers) \/ acc.threw # NoError THEN acc
    ELSE streamColumns(rawFields, headers, rowNumber, errorMode, i + 1,
            streamColumn(headers[i], validateAndConvert(rawFields[i], headers[i], rowNumber),
                         errorMode, acc))

\* A faulty yield that does not mark the headers as yielded, so that every
\* emission carries them; the property of the schema's place must tell it
\* from the code's.
yielded_headersNotMarked(g, e) ==
    [g EXCEPT !.out = Append(@, e), !.rowNumber = @ + 1, !.pc = nextPc(g.buffer, g.done)]

\* The generator yields e and, resumed, goes on to the next line: the
\* statements after each `yield` of a data line.
yielded(g, e) ==
    [g EXCEPT !.out = Append(@, e), !.headerYielded = TRUE, !.rowNumber = @ + 1,
              !.pc = nextPc(g.buffer, g.done)]

\* A faulty throw that yields the error in an emission and goes on; the
\* strict-mode property of the stream must tell it from the code's.
throws_yieldsInstead(g, error) == yielded(g, Emission(<<>>, <<>>, <<error>>))

\* The generator throws error.
throws(g, error) == [g EXCEPT !.pc = "failed", !.threw = error]

\* A faulty header step that yields the header error and goes on to the next
\* line instead of returning; the header-failure property must tell it from
\* the code's.
handleHeader_goesOn(g, headerResult, errorMode) ==
    IF headerResult.error # NoError
    THEN IF errorMode = "strict"
         THEN [g EXCEPT !.headerError = headerResult.error, !.pc = "failed",
                        !.threw = headerResult.error]
         ELSE [g EXCEPT !.headerError = headerResult.error,
                        !.pc = nextPc(g.buffer, g.done),
                        !.out = Append(@, Emission(<<>>, <<>>, <<headerResult.error>>))]
    ELSE [g EXCEPT !.headers = headerResult.headers, !.rowNumber = @ + 1,
                   !.pc = nextPc(g.buffer, g.done)]

\* The first line: parseHeaderLine's result is an error (thrown in strict
\* mode, yielded otherwise and the generator returns) or the headers.
handleHeader(g, headerResult, errorMode) ==
    IF headerResult.error # NoError
    THEN IF errorMode = "strict"
         THEN [g EXCEPT !.headerError = headerResult.error, !.pc = "failed",
                        !.threw = headerResult.error]
         ELSE [g EXCEPT !.headerError = headerResult.error, !.pc = "returned",
                        !.out = Append(@, Emission(<<>>, <<>>, <<headerResult.error>>))]
    ELSE [g EXCEPT !.headers = headerResult.headers, !.rowNumber = @ + 1,
                   !.pc = nextPc(g.buffer, g.done)]

\* A data line whose fields are validated: what is yielded for the row.
handleRow(g, schema, row, errorMode) ==
    IF row.threw # NoError THEN throws(g, row.threw)
    ELSE IF row.rowErrors # <<>> /\ row.hasFatalErrorForRow
    THEN yielded(g, Emission(<<>>, schema, row.rowErrors))
    ELSE IF row.rowErrors # <<>> /\ errorMode = "substituteNull"
    THEN yielded(g, Emission(<<RowObject(g.headers, row.values)>>, schema, row.rowErrors))
    ELSE IF row.rowErrors = <<>>
    THEN yielded(g, Emission(<<RowObject(g.headers, row.values)>>, schema, <<>>))
    ELSE [g EXCEPT !.rowNumber = @ + 1, !.pc = nextPc(g.buffer, g.done)]

\* A data line that is not blank, given its split.
handleData(g, schema, split, errorMode) ==
    IF split.threw \/ Len(split.fields) # Len(g.headers)
    THEN IF errorMode = "strict"
         THEN throws(g, CsvtError("format", g.rowNumber, 0,
                        IF split.threw THEN "Failed to parse CSV row"
                        ELSE "Incorrect number of fields"))
         ELSE yielded(g, Emission(<<>>, schema,
                        <<CsvtError("format", g.rowNumber, 0,
                            IF split.threw THEN "Failed to parse CSV row"
                            ELSE "Incorrect number of fields")>>))
    ELSE handleRow(g, schema,
            streamColumns(split.fields, g.headers, g.rowNumber, errorMode, 1,
                          [values |-> <<>>, rowErrors |-> <<>>,
                           hasFatalErrorForRow |-> FALSE, threw |-> NoError]),
            errorMode)

\* A faulty loop body that reports a blank data line as a row with the wrong
\* number of fields instead of skipping it; the one-emission-per-line
\* property must tell it from the code's.
handleLine_blankLineYields(g, line, errorMode) ==
    IF g.headers = <<>> /\ g.headerError = NoError
    THEN handleHeader(g, parseHeaderLine(line), errorMode)
    ELSE handleData(g, IF g.headerYielded THEN <<>> ELSE g.headers,
                    splitCsvLine(line, COMMA), errorMode)

\* The body of the inner loop for one extracted line, the buffer already cut:
\* the session after the line is handled, up to the next loop test.
handleLine(g, line, errorMode) ==
    IF g.headers = <<>> /\ g.headerError = NoError
    THEN handleHeader(g, parseHeaderLine(line), errorMode)
    ELSE IF Trim(line) = <<>>
    THEN [g EXCEPT !.rowNumber = @ + 1, !.pc = nextPc(g.buffer, g.done)]
    ELSE handleData(g, IF g.headerYielded THEN <<>> ELSE g.headers,
                    splitCsvLine(line, COMMA), errorMode)

\* The line the inner loop cuts off the buffer at lineEndIndex (one trailing CR
\* dropped), or the whole buffer when there is no line end (lineEndIndex = 0).
lineAt(buffer, lineEndIndex) ==
    IF lineEndIndex = 0 THEN buffer
    ELSE IF lineEndIndex > 1 /\ buffer[lineEndIndex - 1] = CR
    THEN SubSeq(buffer, 1, lineEndIndex - 2)
    ELSE SubSeq(buffer, 1, lineEndIndex - 1)

\* What the inner loop leaves in the buffer.
remainingBuffer(buffer, lineEndIndex) ==
    IF lineEndIndex = 0 THEN <<>> ELSE SubSeq(buffer, lineEndIndex + 1, Len(buffer))

\* One pass of the inner loop with lineEndIndex found.
extractLineAt(g, lineEndIndex, errorMode) ==
    handleLine([g EXCEPT !.buffer = remainingBuffer(g.buffer, lineEndIndex)],
               lineAt(g.buffer, lineEndIndex), errorMode)

\* One pass of the inner loop: cut the next logical line off the buffer and
\* handle it.
extractLine(g, errorMode) ==
    extractLineAt(g, findUnquotedNewlineIndex(g.buffer), errorMode)

\* `await reader.read()` returning a chunk (done = false) or the end of the
\* source (done = true, no value), and the append to the buffer.
readChunk(g, chunk, done) ==
    [g EXCEPT !.buffer = @ \o chunk, !.done = done, !.pc = nextPc(g.buffer \o chunk, done)]

\* What a rejected reader.read() leaves the generator with when the reason is
\* an Error: the catch block throws it again.
SourceError == [type |-> "source", row |-> 0, column |-> 0, msg |-> "read failed"]

\* The reasons reader.read() may reject with: an Error, or any other value.
Rejections == {"Error", "other"}

\* `await reader.read()` rejects: the catch block throws an Error again and
\* falls through on any other reason, so that the generator returns.
readFails(g, reason) ==
    [g EXCEPT !.pc = "broken", !.threw = IF reason = "Error" THEN SourceError ELSE NoError]

\* The consumer calls return() on the generator suspended at the yield that
\* took g to after: the statements after the yield do not run.
returnAtYield(g, after) ==
    [after EXCEPT !.pc = "cancelled", !.rowNumber = g.rowNumber,
                  !.headerYielded = g.headerYielded]

\* The positions at which the generator body has been left for good.
EndedPcs == {"completed", "returned", "failed", "broken", "cancelled"}

\* reader.releaseLock().
releaseLock(g) == [g EXCEPT !.releases = @ + 1]

\* A try statement without its finally block: the lock is released on the
\* normal ways out only; the lock property must tell it from the code's.
tryFinally_normalExitOnly(g) ==
    IF g.pc \in {"completed", "returned"} THEN releaseLock(g) ELSE g

\* The try statement around the generator body: its finally block runs when
\* the body is left, however it is left.
tryFinally(g) == IF g.pc \in EndedPcs THEN releaseLock(g) ELSE g

\* ------------------------------------------------------------------ writer

\* A Date value; v is the text its toISOString() returns.
DateValue(iso) == [t |-> "date", v |-> iso]

\* A row object handed to the writer: its own properties in insertion order,
\* each a key and a value.
Entry(key, value) == [key |-> key, value |-> value]

\* Object.keys(row)
ObjectKeys(row) == [i \in DOMAIN row |-> row[i].key]

\* row[key]: the value of the property, undefined when the row has none.
Property(row, key) ==
    IF \E i \in DOMAIN row : row[i].key = key
    THEN row[CHOOSE i \in DOMAIN row : row[i].key = key].value
    ELSE Undefined

\* Array.prototype.join
RECURSIVE Join(_, _)
Join(parts, separator) ==
    IF parts = <<>> THEN <<>>
    ELSE IF Len(parts) = 1 THEN parts[1]
    ELSE parts[1] \o separator \o Join(Tail(parts), separator)

RECURSIVE NatToText(_)
NatToText(n) ==
    IF n < 10 THEN <<Digits[n + 1]>>
    ELSE NatToText(n \div 10) \o <<Digits[(n % 10) + 1]>>

\* String(n) for an integer.
NumberToString(n) == IF n < 0 THEN <<"-">> \o NatToText(0 - n) ELSE NatToText(n)

\* JSON.stringify on an array of numbers or an object without members.
JSONstringify(value) ==
    IF value.t = "array"
    THEN <<"[">> \o Join([i \in DOMAIN value.v |-> NumberToString(value.v[i])], <<COMMA>>)
         \o <<"]">>
    ELSE <<"{", "}">>

serializeValue(value) ==
    CASE value.t \in {"null", "undefined"} -> <<>>
      [] value.t = "date" -> value.v
      [] value.t = "string" -> value.v
      [] value.t = "number" -> NumberToString(value.v)
      [] value.t = "bool" -> IF value.v THEN <<"t", "r", "u", "e">>
                             ELSE <<"f", "a", "l", "s", "e">>
      [] OTHER -> JSONstringify(value)

\* The type determineHeaders infers from the sample value of the first row.
inferredType(sampleValue) ==
    CASE sampleValue.t = "number" -> "number"
      [] sampleValue.t = "bool" -> "bool"
      [] sampleValue.t = "date" -> "datetime"
      [] sampleValue.t = "array" -> "array"
      [] sampleValue.t = "object" -> "object"
      [] OTHER -> "string"

\* The options of writeCsvt: explicit says whether options.headers is given.
WriteOptions(delimiter, lineBreak, explicit, headers) ==
    [delimiter |-> delimiter, lineBreak |-> lineBreak, explicit |-> explicit,
     headers |-> headers]

DefaultWriteOptions == WriteOptions(COMMA, <<LF>>, FALSE, <<>>)

\* determineHeaders: key, name and type text of each column.
determineHeaders(data, options) ==
    IF options.explicit
    THEN [i \in DOMAIN options.headers |->
            [key |-> options.headers[i].name, name |-> options.headers[i].name,
             type |-> options.headers[i].type]]
    ELSE IF data = <<>> THEN <<>>
    ELSE [i \in DOMAIN ObjectKeys(data[1]) |->
            [key |-> ObjectKeys(data[1])[i], name |-> ObjectKeys(data[1])[i],
             type |-> <<inferredType(Property(data[1], ObjectKeys(data[1])[i]))>>]]

escapeHeaderName(name, delimiter) ==
    IF Includes(name, delimiter) \/ Includes(name, COLON) \/ Includes(name, SPACE)
       \/ Includes(name, QUOTE) \/ Includes(name, LF) \/ Includes(name, CR)
    THEN <<QUOTE>> \o DoubleQuotes(name) \o <<QUOTE>>
    ELSE name

generateHeaderRow(headers, delimiter) ==
    Join([i \in DOMAIN headers |->
            escapeHeaderName(headers[i].name, delimiter) \o <<COLON>> \o headers[i].type],
         <<delimiter>>)

generateDataRow(row, headers, delimiter) ==
    Join([i \in DOMAIN headers |->
            escapeCsvField(serializeValue(Property(row, headers[i].key)), delimiter)],
         <<delimiter>>)

\* writeCsvt once the headers are determined.
writeRows(data, headers, options) ==
    Join(<<generateHeaderRow(headers, options.delimiter)>>
         \o [i \in DOMAIN data |-> generateDataRow(data[i], headers, options.delimiter)],
         options.lineBreak)

writeCsvt(data, options) ==
    IF data = <<>> THEN <<>>
    ELSE writeRows(data, determineHeaders(data, options), options)

\* ------------------------------------------------------- streaming writer

\* The closure variables of a writeCsvtStream call at its start, and the
\* chunks its transformer has enqueued (none yet).
NewWriter(options) ==
    [headersDefined |-> FALSE,
     headersToWrite |-> IF options.explicit THEN options.headers ELSE <<>>,
     chunks |-> <<>>]

\* The headers transform infers from the keys of a chunk (a row).
inferHeaders(chunk) ==
    [i \in DOMAIN ObjectKeys(chunk) |->
        [name |-> ObjectKeys(chunk)[i],
         type |-> <<inferredType(Property(chunk, ObjectKeys(chunk)[i]))>>]]

\* The header line of the stream writer.
streamHeaderLine(headers, delimiter) ==
    Join([i \in DOMAIN headers |->
            escapeHeaderName(headers[i].name, delimiter) \o <<COLON>> \o headers[i].type],
         <<delimiter>>)

\* The data line of the stream writer for one chunk.
streamDataLine(chunk, headers, delimiter) ==
    Join([i \in DOMAIN headers |->
            escapeCsvField(serializeValue(Property(chunk, headers[i].name)), delimiter)],
         <<delimiter>>)

\* transform, first part, with the headers to write settled: the header
\* line is enqueued when there are headers.
enqueueHeader(w, options) ==
    IF w.headersToWrite # <<>>
    THEN [w EXCEPT !.chunks = Append(@, streamHeaderLine(w.headersToWrite, options.delimiter)
                                        \o options.lineBreak),
                   !.headersDefined = TRUE]
    ELSE w

\* transform, first part: while no header is written, the headers are
\* inferred from this chunk unless explicit ones are given.
transformHeader(w, chunk, options) ==
    IF w.headersDefined THEN w
    ELSE enqueueHeader([w EXCEPT !.headersToWrite =
                            IF options.explicit THEN @ ELSE inferHeaders(chunk)],
                       options)

\* transform, second part: the data line is enqueued when there are headers.
transformRow(w, chunk, options) ==
    IF w.headersToWrite # <<>>
    THEN [w EXCEPT !.chunks = Append(@, streamDataLine(chunk, w.headersToWrite, options.delimiter)
                                        \o options.lineBreak)]
    ELSE w

\* The transformer's transform(chunk, controller).
transform(w, chunk, options) == transformRow(transformHeader(w, chunk, options), chunk, options)

\* The transformer's flush(controller).
flush(w, options) ==
    IF ~w.headersDefined /\ options.explicit /\ options.headers # <<>>
    THEN [w EXCEPT !.headersToWrite = options.headers,
                   !.chunks = Append(@, streamHeaderLine(options.headers, options.delimiter)
                                        \o options.lineBreak),
                   !.headersDefined = TRUE]
    ELSE w

\* The source stream hands the rows from the i-th on to the transformer, in order.
RECURSIVE transformAll(_, _, _, _)
transformAll(w, data, i, options) ==
    IF i > Len(data) THEN w
    ELSE transformAll(transform(w, data[i], options), data, i + 1, options)

\* writeCsvtStream read to its end: the chunks of text, in order.
writeCsvtStream(data, options) ==
    flush(transformAll(NewWriter(options), data, 1, options), options).chunks

\* The row object as a reader of the parsed result sees it: a value per key.
AsRowObject(row) ==
    [n \in {row[i].key : i \in DOMAIN row} |-> Property(row, n)]

\* ------------------------------------------------------------ state machine

VARIABLES
    errorMode,  \* options.errorMode of the call
    source,     \* the input: what it will deliver first (pending), the characters
                \* it may deliver after that (alphabet) and how many (quota)
    delivered,  \* the text read from the source so far
    sess,       \* the locals of the parseCsvtStream call, what it yielded and threw
    call,       \* the direct call made (parseCsvt, validateAndConvert, or writeCsvt
                \* followed by parseCsvt), with its input and outcome
    writer      \* the streams of a writeCsvtStream call: the rows left in its
                \* source, those taken from it, those in flight and those read

vars == <<errorMode, source, delivered, sess, call, writer>>

\* No writeCsvtStream call is under way.
NoWriter == [kind |-> "none"]

NotCalled == [made |-> FALSE, api |-> "none"]

\* Header lines the inputs start with: a:number!  and  a:number,b:number!
\* and one that does not parse,  a:  (no type after the colon).
HeaderLines ==
    { <<"a", COLON, "number", BANG>>,
      <<"a", COLON, "number", COMMA, "b", COLON, "number", BANG>>,
      <<"a", COLON>> }

\* The characters of the data part of an input.
DataAlphabet == {COMMA, LF, QUOTE, "1", "x"}

\* Inputs of the reconstruction specification: two string columns, and data
\* of quotes, delimiters, line ends and one other character.
QuotedHeaderLines == { <<"a", COMMA, "b">> }

QuotedAlphabet == {QUOTE, COMMA, LF, CR, "x"}

InitWith(headerLines, alphabet, quota) ==
    /\ errorMode \in ErrorModes
    /\ source \in {[pending |-> Append(h, LF), alphabet |-> alphabet, quota |-> quota] :
                      h \in headerLines}
    /\ delivered = <<>>
    /\ sess = NewSession
    /\ call = NotCalled
    /\ writer = NoWriter

Init == InitWith(HeaderLines, DataAlphabet, MaxData)

InitQuoted == InitWith(QuotedHeaderLines, QuotedAlphabet, MaxQuoted)

\* The texts the source can deliver from now on: a piece of the pending header
\* line, or all of it followed by data within the quota.
SourceTexts ==
    {SubSeq(source.pending, 1, h) : h \in 0..Len(source.pending)}
    \cup {source.pending \o d : d \in SeqsUpTo(source.alphabet, source.quota)}

\* The next chunk: any non-empty such text (possibly all that is left).
Chunks == SourceTexts \ {<<>>}

consume(chunk) ==
    LET h == IF Len(chunk) < Len(source.pending) THEN Len(chunk) ELSE Len(source.pending)
    IN  [source EXCEPT !.pending = SubSeq(@, h + 1, Len(@)),
                       !.quota = @ - (Len(chunk) - h)]

\* parseCsvtStream resumes at `await reader.read()` and the source delivers a chunk.
StreamRead ==
    /\ ~call.made
    /\ sess.pc = "read"
    /\ \E chunk \in Chunks :
         /\ sess' = tryFinally(readChunk(sess, chunk, FALSE))
         /\ source' = consume(chunk)
         /\ delivered' = delivered \o chunk
    /\ UNCHANGED <<errorMode, call, writer>>

\* parseCsvtStream resumes at `await reader.read()` and the source has ended.
StreamEnd ==
    /\ ~call.made
    /\ sess.pc = "read"
    /\ sess' = tryFinally(readChunk(sess, <<>>, TRUE))
    /\ UNCHANGED <<errorMode, source, delivered, call, writer>>

\* parseCsvtStream resumes at `await reader.read()` and the read fails.
StreamReadFails ==
    /\ ~call.made
    /\ sess.pc = "read"
    /\ \E reason \in Rejections : sess' = tryFinally(readFails(sess, reason))
    /\ UNCHANGED <<errorMode, source, delivered, call, writer>>

\* One pass of the inner loop of parseCsvtStream.
StreamLine ==
    /\ sess.pc = "lines"
    /\ sess' = tryFinally(extractLine(sess, errorMode))
    /\ UNCHANGED <<errorMode, source, delivered, call, writer>>

\* One pass of the inner loop that yields, and the consumer stops there: it
\* leaves its loop over the generator, which calls return() on it.
StreamCancel ==
    /\ sess.pc = "lines"
    /\ Len(extractLine(sess, errorMode).out) > Len(sess.out)
    /\ sess' = tryFinally(returnAtYield(sess, extractLine(sess, errorMode)))
    /\ UNCHANGED <<errorMode, source, delivered, call, writer>>

\* parseCsvt(csvtString, {errorMode}) on one of the inputs.
ParseCsvtCall ==
    /\ ~call.made
    /\ sess = NewSession
    /\ \E csvtString \in SourceTexts :
         call' = [made |-> TRUE, api |-> "parseCsvt", input |-> csvtString,
                  result |-> parseCsvt(csvtString, errorMode)]
    /\ UNCHANGED <<errorMode, source, delivered, sess, writer>>

\* The characters of a raw field handed to validateAndConvert.
RawAlphabet == {QUOTE, SPACE, "1", "x"}

RawValues == SeqsUpTo(RawAlphabet, MaxRaw)

\* The headers handed to validateAndConvert: every type, nullable and not.
ColumnHeaders ==
    {[name |-> <<"a">>, type |-> t, isNonNull |-> n, columnIndex |-> 1] :
        t \in knownTypes, n \in BOOLEAN}

\* validateAndConvert(rawValue, header, 2) on its own.
ValidateCall ==
    /\ ~call.made
    /\ sess = NewSession
    /\ \E rawValue \in RawValues, header \in ColumnHeaders :
         call' = [made |-> TRUE, api |-> "validateAndConvert", rawValue |-> rawValue,
                  header |-> header, result |-> validateAndConvert(rawValue, header, 2)]
    /\ UNCHANGED <<errorMode, source, delivered, sess, writer>>

\* The values of the rows handed to writeCsvt: a number, a boolean, strings
\* (plain, with the delimiter, a quote, a line break), an array, an object.
WrittenValues ==
    {NumberValue(1), BoolValue(TRUE), StringValue(<<"x">>), StringValue(<<"1">>),
     StringValue(<<"x", COMMA>>), StringValue(<<QUOTE, "x">>), StringValue(<<"x", LF, "y">>),
     ArrayValue(<<1>>), ObjectValue}

\* The data handed to writeCsvt: up to MaxRows rows of one property `a`.
WrittenData ==
    {[i \in DOMAIN vs |-> <<Entry(<<"a">>, vs[i])>>] :
        vs \in SeqsUpTo(WrittenValues, MaxRows) \ {<<>>}}

\* parseCsvt(writeCsvt(data), {errorMode}) with the default write options.
WriteParseCall ==
    /\ ~call.made
    /\ sess = NewSession
    /\ \E data \in WrittenData :
         call' = [made |-> TRUE, api |-> "writeCsvt", data |-> data,
                  written |-> writeCsvt(data, DefaultWriteOptions),
                  result |-> parseCsvt(writeCsvt(data, DefaultWriteOptions), errorMode)]
    /\ UNCHANGED <<errorMode, source, delivered, sess, writer>>

\* A parsed row object as the writer reads it: its properties in the order
\* parseCsvt set them, that of the columns.
RowEntries(headers, row) ==
    [i \in DOMAIN headers |-> Entry(headers[i].name, row[headers[i].name])]

\* The parsed schema handed to the writer as options.headers: the name, and
\* the type with `!` appended for a non-null column.
SchemaAsExplicitHeaders(headers) ==
    [i \in DOMAIN headers |->
        [name |-> headers[i].name,
         type |-> <<headers[i].type>> \o (IF headers[i].isNonNull THEN <<BANG>> ELSE <<>>)]]

\* writeCsvt(result.data, {headers: result.headers as explicit headers}).
writeParsed(result) ==
    writeCsvt([i \in DOMAIN result.data |-> RowEntries(result.headers, result.data[i])],
              WriteOptions(COMMA, <<LF>>, TRUE, SchemaAsExplicitHeaders(result.headers)))

\* The second cycle, given the outcome of the first.
cycleAgain(input, first, written, second, mode) ==
    [made |-> TRUE, api |-> "cycle", input |-> input, first |-> first,
     written |-> written, second |-> second,
     third |-> parseCsvt(writeParsed(second), mode)]

\* The first cycle, given the parse of the input and what is written of it.
cycleOnce(input, first, written, mode) ==
    cycleAgain(input, first, written, parseCsvt(written, mode), mode)

\* parseCsvt, then writeCsvt of the rows with the parsed schema as explicit
\* headers and parseCsvt of the output, twice over.
CycleCall ==
    /\ ~call.made
    /\ sess = NewSession
    /\ \E csvtString \in SourceTexts :
         call' = cycleOnce(csvtString, parseCsvt(csvtString, errorMode),
                           writeParsed(parseCsvt(csvtString, errorMode)), errorMode)
    /\ UNCHANGED <<errorMode, source, delivered, sess, writer>>

\* The characters of a column name: the ones escapeHeaderName looks for, and
\* one other.
NameAlphabet == {QUOTE, COLON, COMMA, SPACE, "a"}

\* The non-empty column names.
ColumnNames == SeqsUpTo(NameAlphabet, MaxName) \ {<<>>}

\* The header field generateHeaderRow writes for a column of that name whose
\* type text is the type token, with `!` when the column is non-null.
writtenHeaderField(name, type, isNonNull) ==
    escapeHeaderName(name, COMMA) \o <<COLON>> \o <<type>>
    \o (IF isNonNull THEN <<BANG>> ELSE <<>>)

\* parseHeaderLine on the header field the writer produces for one column.
HeaderFieldCall ==
    /\ ~call.made
    /\ sess = NewSession
    /\ \E name \in ColumnNames, type \in knownTypes, isNonNull \in BOOLEAN :
         call' = [made |-> TRUE, api |-> "parseHeaderLine", name |-> name, type |-> type,
                  isNonNull |-> isNonNull,
                  field |-> writtenHeaderField(name, type, isNonNull),
                  result |-> parseHeaderLine(writtenHeaderField(name, type, isNonNull))]
    /\ UNCHANGED <<errorMode, source, delivered, sess, writer>>

\* The text toISOString() returns for the one Date written, in three pieces:
\* the date, the letter T, the time of day with the zone.
IsoText == <<"2024-01-15", "T", "10:30:00.000Z">>

\* The rows handed to both writers: one without keys, and rows of a date, a
\* number, a string with a comma, and two properties.
BothRows ==
    { <<>>,
      <<Entry(<<"a">>, DateValue(IsoText))>>,
      <<Entry(<<"a">>, NumberValue(1))>>,
      <<Entry(<<"a">>, StringValue(<<"x", COMMA>>))>>,
      <<Entry(<<"a">>, NumberValue(1)), Entry(<<"b">>, StringValue(<<"x">>))>> }

BothData == SeqsUpTo(BothRows, MaxRows) \ {<<>>}

\* The explicit header lists handed to both writers.
ExplicitHeaderLists ==
    { <<>>,
      <<[name |-> <<"a">>, type |-> <<"date">>]>>,
      <<[name |-> <<"a">>, type |-> <<"datetime">>]>>,
      <<[name |-> <<"b">>, type |-> <<"string">>],
        [name |-> <<"a">>, type |-> <<"number", BANG>>]>> }

\* The options handed to both writers: either delimiter, either line break,
\* headers absent or explicit.
BothOptions ==
    {WriteOptions(d, lb, FALSE, <<>>) : d \in {COMMA, ";"}, lb \in {<<LF>>, <<CR, LF>>}}
    \cup {WriteOptions(d, lb, TRUE, hs) :
              d \in {COMMA, ";"}, lb \in {<<LF>>, <<CR, LF>>}, hs \in ExplicitHeaderLists}

\* writeCsvt and writeCsvtStream on the same rows and options.
WriteBothCall ==
    /\ ~call.made
    /\ sess = NewSession
    /\ \E data \in BothData, options \in BothOptions :
         call' = [made |-> TRUE, api |-> "write", data |-> data, options |-> options,
                  text |-> writeCsvt(data, options),
                  chunks |-> writeCsvtStream(data, options)]
    /\ UNCHANGED <<errorMode, source, delivered, sess, writer>>

\* The header field of a column written without a type: the name, quoted as
\* escapeHeaderName quotes it, with `!` when the column is non-null.
bareHeaderField(name, isNonNull) ==
    escapeHeaderName(name, COMMA) \o (IF isNonNull THEN <<BANG>> ELSE <<>>)

\* parseHeaderLine on a header field that has a name and no type.
BareHeaderCall ==
    /\ ~call.made
    /\ sess = NewSession
    /\ \E name \in ColumnNames, isNonNull \in BOOLEAN :
         call' = [made |-> TRUE, api |-> "parseBareHeader", name |-> name,
                  isNonNull |-> isNonNull,
                  field |-> bareHeaderField(name, isNonNull),
                  result |-> parseHeaderLine(bareHeaderField(name, isNonNull))]
    /\ UNCHANGED <<errorMode, source, delivered, sess, writer>>

Next ==
    \/ StreamRead \/ StreamEnd \/ StreamReadFails \/ StreamLine \/ StreamCancel
    \/ ParseCsvtCall \/ ValidateCall \/ WriteParseCall \/ CycleCall
    \/ HeaderFieldCall \/ WriteBothCall \/ BareHeaderCall

Spec == Init /\ [][Next]_vars

\* The characters of a header line handed to parseHeaderLine on its own: two
\* names, the delimiter, the colon, a type in either case, `!`, the quote
\* and a space.
HeaderAlphabet == {"a", "b", COMMA, COLON, "number", "NUMBER", BANG, QUOTE, SPACE}

HeaderTexts == SeqsUpTo(HeaderAlphabet, MaxHeader)

\* parseHeaderLine(headerLine) on its own.
HeaderLineCall ==
    /\ ~call.made
    /\ \E headerLine \in HeaderTexts :
         call' = [made |-> TRUE, api |-> "headerLine", headerLine |-> headerLine,
                  result |-> parseHeaderLine(headerLine)]
    /\ UNCHANGED <<errorMode, source, delivered, sess, writer>>

\* The characters of the values of the field round trip: the quote, both
\* delimiters, both line breaks and a space.
JoinAlphabet == {QUOTE, COMMA, ";", LF, CR, SPACE}

\* The delimiters of the field round trip.
Delimiters == {COMMA, ";"}

\* The mark that stands between two values in a text of ValueTexts.
MARK == "|"

\* The values a marked text is made of: cut at every mark.
RECURSIVE SplitAtMarks(_, _)
SplitAtMarks(text, current) ==
    IF text = <<>> THEN <<current>>
    ELSE IF Head(text) = MARK THEN <<current>> \o SplitAtMarks(Tail(text), <<>>)
    ELSE SplitAtMarks(Tail(text), Append(current, Head(text)))

\* The lists of one or more values whose values and separating marks make up
\* a text of at most MaxJoined characters.
ValueLists ==
    {SplitAtMarks(t, <<>>) : t \in SeqsUpTo(JoinAlphabet \cup {MARK}, MaxJoined)}

\* values.map(v => escapeCsvField(v, delimiter)).join(delimiter)
joinEscaped(values, delimiter) ==
    Join([i \in DOMAIN values |-> escapeCsvField(values[i], delimiter)], <<delimiter>>)

\* splitCsvLine on a line of escaped values joined by the delimiter, and
\* cleanCsvField on each raw field.
SplitJoinCall ==
    /\ ~call.made
    /\ \E values \in ValueLists, delimiter \in Delimiters :
         LET split == splitCsvLine(joinEscaped(values, delimiter), delimiter)
         IN  call' = [made |-> TRUE, api |-> "splitJoin", values |-> values,
                      delimiter |-> delimiter,
                      line |-> joinEscaped(values, delimiter),
                      threw |-> split.threw,
                      rawFields |-> split.fields,
                      cleaned |-> [i \in DOMAIN split.fields |->
                                      cleanCsvField(split.fields[i])]]
    /\ UNCHANGED <<errorMode, source, delivered, sess, writer>>

\* The functions of the library called on their own, outside any session.
InitCalls ==
    /\ errorMode = "strict"
    /\ source = [pending |-> <<>>, alphabet |-> {}, quota |-> 0]
    /\ delivered = <<>>
    /\ sess = NewSession
    /\ call = NotCalled
    /\ writer = NoWriter

NextCalls ==
    \/ HeaderLineCall
    \/ SplitJoinCall

SpecCalls == InitCalls /\ [][NextCalls]_vars

SpecQuoted == InitQuoted /\ [][Next]_vars

\* The characters of the data of a session that is pulled to its end: the
\* line break, the quote and one other character.
PulledAlphabet == {LF, QUOTE, "1"}

InitPulled == InitWith(HeaderLines, PulledAlphabet, MaxData)

\* A session whose consumer pulls until the generator ends, over a source
\* that delivers its chunks and then ends: no read fails, and the consumer
\* does not stop early.
NextPulled ==
    \/ StreamRead \/ StreamEnd \/ StreamLine

\* A pass of the inner loop is taken whenever the generator stands in it:
\* WF_vars(StreamLine), with ENABLED <<StreamLine>>_vars written as the state
\* predicate it amounts to (LinePassIsAStep).
LinesFair == []<>(sess.pc # "lines") \/ []<><<StreamLine>>_vars

\* The consumer's `for await` asks for the next emission whenever the
\* generator is suspended, the generator runs on until it yields or ends,
\* and the source, which has finitely many chunks, ends once they are read.
SpecPulled == InitPulled /\ [][NextPulled]_vars /\ WF_vars(StreamEnd) /\ LinesFair

\* ------------------------------------------- the streams of writeCsvtStream

\* The rows that can be in flight between the source stream and the
\* consumer: one in the queue of the source stream, one in that of the
\* transformer and one in that of the text encoder (each stream is made
\* without a queuing strategy, so with the default high-water mark).
QueueBound == 3

\* A writeCsvtStream call on a source of n rows that is a synchronous
\* Iterable or an AsyncIterable; nothing has run yet.
NewWriterStream(kind, n) ==
    [kind |-> kind, remaining |-> n, started |-> FALSE, pulled |-> 0, queued |-> 0,
     read |-> 0, closed |-> FALSE, cancelled |-> FALSE]

InitWriter ==
    /\ errorMode = "strict"
    /\ source = [pending |-> <<>>, alphabet |-> {}, quota |-> 0]
    /\ delivered = <<>>
    /\ sess = NewSession
    /\ call = NotCalled
    /\ writer \in {NewWriterStream(kind, n) : kind \in {"sync", "async"}, n \in 0..MaxSourceRows}

\* start(controller) of the source stream: a synchronous iterator is run to
\* its end at once, every row enqueued, and the stream closed; an
\* asynchronous one is only stored.
WriterStart ==
    /\ writer.kind \in {"sync", "async"}
    /\ ~writer.started
    /\ writer' = IF writer.kind = "sync"
                 THEN [writer EXCEPT !.started = TRUE, !.pulled = writer.remaining,
                                     !.queued = writer.remaining, !.remaining = 0,
                                     !.closed = TRUE]
                 ELSE [writer EXCEPT !.started = TRUE]
    /\ UNCHANGED <<errorMode, source, delivered, sess, call>>

\* pull(controller) of the source stream, which the stream calls while there
\* is room in flight: the next row of the asynchronous iterator is enqueued,
\* or the stream closed at its end.
WriterPull ==
    /\ writer.kind = "async"
    /\ writer.started /\ ~writer.closed /\ ~writer.cancelled
    /\ writer.queued < QueueBound
    /\ writer' = IF writer.remaining = 0
                 THEN [writer EXCEPT !.closed = TRUE]
                 ELSE [writer EXCEPT !.remaining = @ - 1, !.pulled = @ + 1, !.queued = @ + 1]
    /\ UNCHANGED <<errorMode, source, delivered, sess, call>>

\* The consumer reads the data line of the next row in flight.
WriterRead ==
    /\ writer.kind \in {"sync", "async"}
    /\ writer.started /\ ~writer.cancelled
    /\ writer.queued > 0
    /\ writer' = [writer EXCEPT !.queued = @ - 1, !.read = @ + 1]
    /\ UNCHANGED <<errorMode, source, delivered, sess, call>>

\* The consumer cancels the output stream: cancel(reason) of the source
\* stream calls return() on the iterator, and what is in flight is dropped.
WriterCancel ==
    /\ writer.kind \in {"sync", "async"}
    /\ writer.started /\ ~writer.cancelled
    /\ ~(writer.closed /\ writer.queued = 0)
    /\ writer' = [writer EXCEPT !.cancelled = TRUE, !.queued = 0]
    /\ UNCHANGED <<errorMode, source, delivered, sess, call>>

NextWriter == WriterStart \/ WriterPull \/ WriterRead \/ WriterCancel

SpecWriter == InitWriter /\ [][NextWriter]_vars

\* -------------------------------------------------- what a line should yield

\* The functions below say what one data line amounts to under a schema; the
\* properties compare the results of the parsers with them.

\* The line fails to split, or has another number of fields than the schema.
FormatBad(line, headers) ==
    \/ splitCsvLine(line, COMMA).threw
    \/ Len(splitCsvLine(line, COMMA).fields) # Len(headers)

\* The validation result of each field of a line that splits into the
\* schema's number of fields, as line rowNumber.
Checked(line, headers, rowNumber) ==
    [i \in DOMAIN headers |->
        validateAndConvert(splitCsvLine(line, COMMA).fields[i], headers[i], rowNumber)]

\* The columns of the line whose field raises an error.
ErrorColumns(line, headers) ==
    {i \in DOMAIN headers : Checked(line, headers, 0)[i].error # NoError}

\* The line raises no error at all.
ErrorFree(line, headers) ==
    ~FormatBad(line, headers) /\ ErrorColumns(line, headers) = {}

\* The row of an error-free line.
ConvertedRow(line, headers) ==
    RowObject(headers, [i \in DOMAIN headers |-> Checked(line, headers, 0)[i].value])

\* The first error of a line that is not error-free: its kind and column.
FirstError(line, headers, rowNumber) ==
    IF FormatBad(line, headers) THEN [type |-> "format", row |-> rowNumber, column |-> 0]
    ELSE LET c == CHOOSE i \in ErrorColumns(line, headers) :
                      \A j \in ErrorColumns(line, headers) : i <= j
         IN  [type |-> Checked(line, headers, rowNumber)[c].error.type,
              row |-> rowNumber, column |-> c]

\* Kind, row and column of an error.
Where(error) == [type |-> error.type, row |-> error.row, column |-> error.column]

\* The elements of a sequence.
Range(s) == {s[i] : i \in DOMAIN s}

\* The lines parseCsvt sees in its input and the schema of the first.
CallLines == SplitLines(NormalizeLineEndings(call.input))

CallHeaders == parseHeaderLine(CallLines[1]).headers

\* The line numbers of the data lines of a parseCsvt input: every line after
\* the header but an empty last one.
CallDataRows ==
    {i \in 2..Len(CallLines) : ~(i = Len(CallLines) /\ CallLines[i] = <<>>)}

\* The logical lines of a text read as a stream: cut at each newline outside
\* quotes, the rest of the text being the last line.
RECURSIVE LogicalLines(_)
LogicalLines(text) ==
    IF text = <<>> THEN <<>>
    ELSE IF findUnquotedNewlineIndex(text) = 0 THEN <<text>>
    ELSE <<lineAt(text, findUnquotedNewlineIndex(text))>>
         \o LogicalLines(remainingBuffer(text, findUnquotedNewlineIndex(text)))

ReadLines == LogicalLines(delivered)

\* The line numbers of the data lines of the text read: every logical line
\* after the header that is not blank.
ReadDataRows == {i \in 2..Len(ReadLines) : Trim(ReadLines[i]) # <<>>}

\* parseCsvtStream has ended: completed, returned after a header error, or thrown.
Ended == sess.pc \in {"completed", "returned", "failed"}

\* The rows yielded so far, in order.
RECURSIVE YieldedRows(_)
YieldedRows(out) ==
    IF out = <<>> THEN <<>> ELSE YieldedRows(Front(out)) \o Last(out).data

\* The errors yielded so far, in order.
RECURSIVE YieldedErrors(_)
YieldedErrors(out) ==
    IF out = <<>> THEN <<>> ELSE YieldedErrors(Front(out)) \o Last(out).errors

\* parseCsvtStream run to its end on a source that delivers the text whole.
RECURSIVE drain(_, _)
drain(g, mode) == IF g.pc = "lines" THEN drain(extractLine(g, mode), mode) ELSE g

endOfSource(g, mode) ==
    IF g.pc = "read" THEN drain(readChunk(g, <<>>, TRUE), mode) ELSE g

OneChunkRun(text, mode) ==
    endOfSource(drain(readChunk(NewSession, text, FALSE), mode), mode)

\* ------------------------------------------------------------------ claims

\* C1, first half: the values parseCsvtStream yields, and the error it ends
\* with, depend only on the text read, not on where the chunks cut it: a
\* call that has ended has yielded what a call on the same text delivered as
\* one chunk yields.
C1_ChunkingInvisible ==
    Ended => /\ sess.out = OneChunkRun(delivered, errorMode).out
             /\ sess.threw = OneChunkRun(delivered, errorMode).threw

\* C1, second half: a newline inside a quoted field never ends a logical
\* line.  A field is quoted when its first character is a quote (that is how
\* splitCsvLine reads the line); the newline at which the stream cuts a line
\* off its buffer is then never one that splitCsvLine, reading the buffer up
\* to it, finds inside an open quoted field.
C1_NoCutInsideQuotedField ==
    (sess.pc = "lines" /\ findUnquotedNewlineIndex(sess.buffer) # 0)
    => ~splitCsvLine(SubSeq(sess.buffer, 1, findUnquotedNewlineIndex(sess.buffer) - 1),
                     COMMA).threw

\* C1: parseCsvtStream yields the same emissions however the source text is
\* cut into chunks, and a newline inside a quoted field never ends a logical
\* line.
C1_ChunkCutsAndQuotedNewlines == C1_ChunkingInvisible /\ C1_NoCutInsideQuotedField

\* C2: in strict mode parseCsvt throws exactly one error, that of the
\* lowest-numbered row that has any error (splitting, field count or
\* validation), also when a later row has a format error; it throws nothing
\* when no row has an error.
C2_StrictThrowsFirstErrorInSourceOrder ==
    (call.api = "parseCsvt" /\ errorMode = "strict" /\ CallHeaders # <<>>)
    => LET bad == {i \in CallDataRows : ~ErrorFree(CallLines[i], CallHeaders)}
       IN  IF bad = {} THEN call.result.threw = NoError
           ELSE Where(call.result.threw) =
                    FirstError(CallLines[CHOOSE i \in bad : \A j \in bad : i <= j],
                               CallHeaders, CHOOSE i \in bad : \A j \in bad : i <= j)

\* In substituteNull mode the line yields no row: it fails to split or count,
\* or a field violates a non-null constraint or has a type error in a
\* non-null column.
Excluded(line, headers) ==
    \/ FormatBad(line, headers)
    \/ \E c \in ErrorColumns(line, headers) :
          \/ Checked(line, headers, 0)[c].error.type # "type"
          \/ headers[c].isNonNull

\* The row of a line with null in place of each field that raises an error.
SubstitutedRow(line, headers) ==
    RowObject(headers,
              [i \in DOMAIN headers |->
                  IF Checked(line, headers, 0)[i].error # NoError THEN NullValue
                  ELSE Checked(line, headers, 0)[i].value])

\* The rows the data lines from line i on should yield, in order: those of
\* the error-free lines, and with substitute those of the lines that are not
\* excluded.
RECURSIVE ExpectedRows(_, _, _, _, _)
ExpectedRows(lines, headers, rows, i, substitute) ==
    IF i > Len(lines) THEN <<>>
    ELSE (IF /\ i \in rows
             /\ IF substitute THEN ~Excluded(lines[i], headers)
                ELSE ErrorFree(lines[i], headers)
          THEN <<SubstitutedRow(lines[i], headers)>>
          ELSE <<>>)
         \o ExpectedRows(lines, headers, rows, i + 1, substitute)

\* The data lines among rows that raise an error.
Erroneous(lines, headers, rows) == {i \in rows : ~ErrorFree(lines[i], headers)}

\* C3: in collect mode the rows returned by parseCsvt, and those yielded by
\* parseCsvtStream when it completes, are the rows of the data lines that
\* raise no error, in input order; a data line with an error yields no row
\* and at least one error, and the lines after it are still processed.  (A
\* data line is a line the entry point processes: parseCsvt leaves out an
\* empty last line, the stream every blank line.)
C3_CollectKeepsExactlyErrorFreeLines ==
    /\ (call.api = "parseCsvt" /\ errorMode = "collect" /\ CallHeaders # <<>>)
       => /\ call.result.threw = NoError
          /\ call.result.data = ExpectedRows(CallLines, CallHeaders, CallDataRows, 2, FALSE)
          /\ Len(call.result.errors)
                >= Cardinality(Erroneous(CallLines, CallHeaders, CallDataRows))
    /\ (sess.pc = "completed" /\ errorMode = "collect" /\ sess.headers # <<>>)
       => /\ YieldedRows(sess.out)
                = ExpectedRows(ReadLines, sess.headers, ReadDataRows, 2, FALSE)
          /\ \A i \in Erroneous(ReadLines, sess.headers, ReadDataRows) :
                \E k \in DOMAIN sess.out :
                    /\ sess.out[k].data = <<>>
                    /\ sess.out[k].errors # <<>>
                    /\ \A e \in Range(sess.out[k].errors) : e.row = i

\* C3's case: a collecting stream has completed on a text in which a line
\* with an error is followed by an error-free line, whose row is yielded.
C3_Witness ==
    /\ sess.pc = "completed" /\ errorMode = "collect" /\ sess.headers # <<>>
    /\ \E i, j \in ReadDataRows :
          /\ i < j
          /\ ~ErrorFree(ReadLines[i], sess.headers)
          /\ ErrorFree(ReadLines[j], sess.headers)
    /\ YieldedRows(sess.out) # <<>>
    /\ YieldedErrors(sess.out) # <<>>

\* C4: in substituteNull mode a data line with a type error in a non-null
\* column or a non-null constraint violation yields no row, in parseCsvt and
\* in parseCsvtStream, so no returned row holds null in a non-null column.
C4_SubstituteNullRespectsNonNull ==
    /\ (call.api = "parseCsvt" /\ errorMode = "substituteNull" /\ CallHeaders # <<>>)
       => /\ call.result.data = ExpectedRows(CallLines, CallHeaders, CallDataRows, 2, TRUE)
          /\ \A r \in Range(call.result.data) : \A c \in DOMAIN CallHeaders :
                CallHeaders[c].isNonNull => r[CallHeaders[c].name] # NullValue
    /\ (sess.pc = "completed" /\ errorMode = "substituteNull" /\ sess.headers # <<>>)
       => /\ YieldedRows(sess.out)
                = ExpectedRows(ReadLines, sess.headers, ReadDataRows, 2, TRUE)
          /\ \A r \in Range(YieldedRows(sess.out)) : \A c \in DOMAIN sess.headers :
                sess.headers[c].isNonNull => r[sess.headers[c].name] # NullValue

\* The stream's half of C4 alone.
StreamSubstituteNullRespectsNonNull ==
    (sess.pc = "completed" /\ errorMode = "substituteNull" /\ sess.headers # <<>>)
    => YieldedRows(sess.out) = ExpectedRows(ReadLines, sess.headers, ReadDataRows, 2, TRUE)

\* The data lines whose only errors are type errors in nullable columns.
Substitutable(lines, headers, rows) ==
    {i \in rows : ~Excluded(lines[i], headers) /\ ErrorColumns(lines[i], headers) # {}}

\* C5: in substituteNull mode a data line whose errors are type errors in
\* nullable columns keeps its row, with null in those columns and the
\* converted values in the others, and its type errors are reported: by
\* parseCsvt in the returned rows and errors, by parseCsvtStream in one
\* emission that carries the row and exactly those errors.
C5_SubstituteNullKeepsRowWithNull ==
    /\ (call.api = "parseCsvt" /\ errorMode = "substituteNull" /\ CallHeaders # <<>>)
       => \A i \in Substitutable(CallLines, CallHeaders, CallDataRows) :
             /\ SubstitutedRow(CallLines[i], CallHeaders) \in Range(call.result.data)
             /\ \A c \in ErrorColumns(CallLines[i], CallHeaders) :
                   \E e \in Range(call.result.errors) : e.type = "type" /\ e.column = c
    /\ (sess.pc = "completed" /\ errorMode = "substituteNull" /\ sess.headers # <<>>)
       => \A i \in Substitutable(ReadLines, sess.headers, ReadDataRows) :
             \E k \in DOMAIN sess.out :
                /\ sess.out[k].data = <<SubstitutedRow(ReadLines[i], sess.headers)>>
                /\ {Where(e) : e \in Range(sess.out[k].errors)}
                      = {[type |-> "type", row |-> i, column |-> c] :
                            c \in ErrorColumns(ReadLines[i], sess.headers)}

\* C5's case: parseCsvt in substituteNull mode has returned a row with null
\* in a nullable column whose field had a type error, and the error.
C5_Witness ==
    /\ call.api = "parseCsvt" /\ errorMode = "substituteNull" /\ CallHeaders # <<>>
    /\ \E i \in Substitutable(CallLines, CallHeaders, CallDataRows) :
          \E c \in ErrorColumns(CallLines[i], CallHeaders) :
             /\ ~CallHeaders[c].isNonNull
             /\ SubstitutedRow(CallLines[i], CallHeaders)[CallHeaders[c].name] = NullValue
             /\ SubstitutedRow(CallLines[i], CallHeaders) \in Range(call.result.data)
    /\ \E e \in Range(call.result.errors) : e.type = "type"

\* The error e is one that line e.row of lines raises.
Reported(e, lines, headers, rows) ==
    /\ e.row \in rows
    /\ IF FormatBad(lines[e.row], headers) THEN e.type = "format"
       ELSE /\ e.column \in ErrorColumns(lines[e.row], headers)
            /\ Where(Checked(lines[e.row], headers, e.row)[e.column].error) = Where(e)

\* The stream's half of C6: every error yielded or thrown by parseCsvtStream
\* for a data line carries that line's number.
StreamRowNumbersAreLineNumbers ==
    sess.headers # <<>>
    => /\ \A e \in Range(YieldedErrors(sess.out)) :
             Reported(e, ReadLines, sess.headers, ReadDataRows)
       /\ sess.threw # NoError
             => Reported(sess.threw, ReadLines, sess.headers, ReadDataRows)

\* C6: the row of every error about a data line is the 1-based number of
\* that line in the input (the header being line 1), in parseCsvt's collect
\* and substituteNull modes and in parseCsvtStream.
C6_ErrorRowIsInputLineNumber ==
    /\ (call.api = "parseCsvt" /\ errorMode # "strict" /\ CallHeaders # <<>>)
       => \A e \in Range(call.result.errors) :
             Reported(e, CallLines, CallHeaders, CallDataRows)
    /\ StreamRowNumbersAreLineNumbers

\* Every row written has the kind of value the first row has (the header
\* types are inferred from the first row).
Homogeneous(data) ==
    \A i \in DOMAIN data : \A c \in DOMAIN data[1] :
        inferredType(Property(data[i], data[1][c].key)) = inferredType(data[1][c].value)

\* C7: rows of numbers, booleans, non-empty strings (also with the delimiter,
\* quotes or line breaks in them), arrays and plain objects, each column of
\* one kind, written by writeCsvt with the default options and parsed by
\* parseCsvt, come back equal, with no error.
C7_WriteThenParseRoundTrip ==
    (call.api = "writeCsvt" /\ Homogeneous(call.data))
    => /\ call.result.threw = NoError
       /\ call.result.errors = <<>>
       /\ call.result.data = [i \in DOMAIN call.data |-> AsRowObject(call.data[i])]

\* C7 without line breaks in the strings written.
RoundTripWithoutLineBreaks ==
    (/\ call.api = "writeCsvt" /\ Homogeneous(call.data)
     /\ \A i \in DOMAIN call.data :
           call.data[i][1].value.t = "string"
              => ~Includes(call.data[i][1].value.v, LF))
    => /\ call.result.threw = NoError
       /\ call.result.errors = <<>>
       /\ call.result.data = [i \in DOMAIN call.data |-> AsRowObject(call.data[i])]

C9_EmptyNullableStringIsEmptyString ==
    (/\ call.api = "validateAndConvert" /\ cleanCsvField(call.rawValue) = <<>>
     /\ ~call.header.isNonNull)
    => /\ call.result.error = NoError
       /\ call.result.value =
             IF call.header.type = "string" THEN StringValue(<<>>) ELSE NullValue

\* The data lines that split but into another number of fields than the schema.
Miscounted(lines, headers, rows) ==
    {i \in rows : /\ ~splitCsvLine(lines[i], COMMA).threw
                  /\ Len(splitCsvLine(lines[i], COMMA).fields) # Len(headers)}

\* The number of field errors the lines of rows that split and count right
\* can raise, from line i on.
RECURSIVE FieldErrorCount(_, _, _, _)
FieldErrorCount(lines, headers, rows, i) ==
    IF i > Len(lines) THEN 0
    ELSE (IF i \in rows /\ ~FormatBad(lines[i], headers)
          THEN Cardinality(ErrorColumns(lines[i], headers)) ELSE 0)
         + FieldErrorCount(lines, headers, rows, i + 1)

\* The first data line of rows with an error is line i.
FirstErroneous(lines, headers, rows, i) ==
    /\ i \in Erroneous(lines, headers, rows)
    /\ \A j \in Erroneous(lines, headers, rows) : i <= j

\* C10: a data line whose field count differs from the schema's raises one
\* format error and nothing else: none of its fields is validated and it
\* yields no row.  parseCsvt (collect, substituteNull) reports exactly one
\* format error with the line's number, no more type and constraint errors
\* than the other lines' fields raise, and no more rows than lines that
\* split and count right; parseCsvtStream yields for the line one emission,
\* without a row and with that one format error; in strict mode the format
\* error is the one thrown when the line is the first with an error.
C10_FieldCountMismatchIsOneFormatError ==
    /\ (call.api = "parseCsvt" /\ errorMode # "strict" /\ CallHeaders # <<>>)
       => /\ \A i \in Miscounted(CallLines, CallHeaders, CallDataRows) :
                Cardinality({k \in DOMAIN call.result.errors :
                                call.result.errors[k].row = i
                                /\ call.result.errors[k].type = "format"}) = 1
          /\ Cardinality({k \in DOMAIN call.result.errors :
                             call.result.errors[k].type # "format"})
                <= FieldErrorCount(CallLines, CallHeaders, CallDataRows, 2)
          /\ Len(call.result.data)
                <= Cardinality({i \in CallDataRows : ~FormatBad(CallLines[i], CallHeaders)})
    /\ (call.api = "parseCsvt" /\ errorMode = "strict" /\ CallHeaders # <<>>)
       => \A i \in Miscounted(CallLines, CallHeaders, CallDataRows) :
             FirstErroneous(CallLines, CallHeaders, CallDataRows, i)
                => Where(call.result.threw) = [type |-> "format", row |-> i, column |-> 0]
    /\ (sess.pc = "completed" /\ errorMode # "strict" /\ sess.headers # <<>>)
       => \A i \in Miscounted(ReadLines, sess.headers, ReadDataRows) :
             /\ Cardinality({k \in DOMAIN sess.out :
                               \E e \in Range(sess.out[k].errors) : e.row = i}) = 1
             /\ \A k \in DOMAIN sess.out :
                   (\E e \in Range(sess.out[k].errors) : e.row = i)
                   => /\ sess.out[k].data = <<>>
                      /\ Len(sess.out[k].errors) = 1
                      /\ sess.out[k].errors[1].type = "format"
    /\ (sess.pc = "failed" /\ errorMode = "strict" /\ sess.headers # <<>>)
       => \A i \in Miscounted(ReadLines, sess.headers, ReadDataRows) :
             FirstErroneous(ReadLines, sess.headers, ReadDataRows, i)
                => Where(sess.threw) = [type |-> "format", row |-> i, column |-> 0]

\* C10's case: parseCsvt, collecting, has read a line with too many fields
\* whose first field alone would be a type error, and reports for it one
\* format error and no type error.
C10_Witness ==
    /\ call.api = "parseCsvt" /\ errorMode = "collect" /\ CallHeaders # <<>>
    /\ \E i \in Miscounted(CallLines, CallHeaders, CallDataRows) :
          /\ Len(splitCsvLine(CallLines[i], COMMA).fields) > Len(CallHeaders)
          /\ validateAndConvert(splitCsvLine(CallLines[i], COMMA).fields[1],
                                CallHeaders[1], i).error.type = "type"
          /\ \E e \in Range(call.result.errors) : e.row = i /\ e.type = "format"
    /\ \A e \in Range(call.result.errors) : e.type = "format"
    /\ call.result.data = <<>>

\* C11: a header line that does not parse is fatal in every mode and
\* reported once.  parseCsvt, collecting or substituting, returns no rows,
\* no schema and that one error, with row 1, and throws it in strict mode;
\* parseCsvtStream yields one emission that carries the error alone and
\* returns with the data lines unread, and in strict mode throws it having
\* yielded nothing.
C11_HeaderFailureIsFatalAndReportedOnce ==
    /\ (/\ call.api = "parseCsvt" /\ call.input # <<>>
        /\ parseHeaderLine(CallLines[1]).error # NoError)
       => /\ parseHeaderLine(CallLines[1]).error.row = 1
          /\ call.result =
                IF errorMode = "strict" THEN Thrown(parseHeaderLine(CallLines[1]).error)
                ELSE ParsedResult(<<>>, <<>>, <<parseHeaderLine(CallLines[1]).error>>)
    /\ (/\ sess.pc \in {"completed", "returned", "failed"} /\ sess.threw.type # "source"
        /\ delivered # <<>>
        /\ parseHeaderLine(ReadLines[1]).error # NoError)
       => /\ sess.headerError = parseHeaderLine(ReadLines[1]).error
          /\ sess.headerError.row = 1
          /\ sess.rowNumber = 1
          /\ IF errorMode = "strict"
             THEN sess.pc = "failed" /\ sess.threw = sess.headerError /\ sess.out = <<>>
             ELSE /\ sess.pc = "returned" /\ sess.threw = NoError
                  /\ sess.out = <<Emission(<<>>, <<>>, <<sess.headerError>>)>>

\* C11's case: a collecting stream has returned after yielding the header
\* error, with data lines delivered after the header line and left unread.
C11_Witness ==
    /\ errorMode = "collect" /\ sess.pc = "returned"
    /\ Len(sess.out) = 1 /\ sess.out[1].errors = <<sess.headerError>>
    /\ Len(ReadLines) > 1
    /\ findUnquotedNewlineIndex(sess.buffer) # 0

\* The data lines among rows before line first.
Before(rows, first) == {i \in rows : i < first}

\* The first data line among rows with an error (there is one).
FirstErroneousRow(lines, headers, rows) ==
    CHOOSE i \in Erroneous(lines, headers, rows) :
        \A j \in Erroneous(lines, headers, rows) : i <= j

\* C12: in strict mode parseCsvtStream yields one emission, a row without
\* errors, for each data line before the first line with an error, in
\* source order, and then throws that line's error; it throws only then,
\* and no emission it yields in strict mode carries an error.  (Blank lines
\* are skipped and yield nothing.)
C12_StrictStreamYieldsUntilFirstError ==
    (errorMode = "strict" /\ sess.headers # <<>> /\ sess.threw.type # "source")
    => /\ \A k \in DOMAIN sess.out :
             sess.out[k].errors = <<>> /\ Len(sess.out[k].data) = 1
       /\ sess.pc = "failed"
          => /\ Erroneous(ReadLines, sess.headers, ReadDataRows) # {}
             /\ Where(sess.threw) =
                   FirstError(ReadLines[FirstErroneousRow(ReadLines, sess.headers, ReadDataRows)],
                              sess.headers,
                              FirstErroneousRow(ReadLines, sess.headers, ReadDataRows))
             /\ YieldedRows(sess.out) =
                   ExpectedRows(ReadLines, sess.headers,
                                Before(ReadDataRows,
                                       FirstErroneousRow(ReadLines, sess.headers, ReadDataRows)),
                                2, FALSE)
             /\ Len(sess.out) =
                   Cardinality(Before(ReadDataRows,
                                      FirstErroneousRow(ReadLines, sess.headers, ReadDataRows)))
       /\ sess.pc = "completed"
          => /\ Erroneous(ReadLines, sess.headers, ReadDataRows) = {}
             /\ Len(sess.out) = Cardinality(ReadDataRows)

\* C12's case: a strict stream has yielded a row and then thrown the error
\* of a later line.
C12_Witness ==
    /\ errorMode = "strict" /\ sess.pc = "failed" /\ sess.headers # <<>>
    /\ sess.out # <<>>
    /\ sess.threw.row = Len(sess.out) + 2
    /\ sess.threw.type \in {"format", "type", "constraint"}

\* C13: however a parseCsvtStream session ends (the source is exhausted,
\* the header does not parse, an error is thrown in strict mode, a read of
\* the source fails, or the consumer stops at an emission), the lock of the
\* reader is released exactly once, at the end and not before, and once the
\* session has ended nothing more is read from the source.
C13_LockReleasedOnceAndNoReadAfterEnd ==
    /\ [](sess.pc \in EndedPcs => sess.releases = 1)
    /\ [](sess.pc \notin EndedPcs => sess.releases = 0)
    /\ [][sess.pc \in EndedPcs
            => (sess' = sess /\ source' = source /\ delivered' = delivered)]_vars

\* C13's case: the consumer stopped at an emission while a line was still
\* waiting in the buffer and the source had more to deliver, and the lock
\* has been released.
C13_Witness ==
    /\ sess.pc = "cancelled" /\ sess.releases = 1 /\ sess.out # <<>>
    /\ lineAvailable(sess.buffer, sess.done) /\ ~sess.done
    /\ source.quota > 0

\* C14: parseCsvt on the empty string throws an error saying 'Input is
\* empty' (row 1) in strict mode, and in collect and substituteNull mode
\* returns no rows, an empty schema and exactly one error, a format error of
\* row 1 with that message.
C14_EmptyInputIsOneFormatError ==
    (call.api = "parseCsvt" /\ call.input = <<>>)
    => /\ call.result.data = <<>>
       /\ call.result.headers = <<>>
       /\ IF errorMode = "strict"
          THEN /\ call.result.threw = CsvtError("format", 1, 0, "Input is empty")
               /\ call.result.errors = <<>>
          ELSE /\ call.result.threw = NoError
               /\ call.result.errors = <<CsvtError("format", 1, 0, "Input is empty")>>

\* C14's case: parseCsvt('') was called in substituteNull mode and returned
\* one error.
C14_Witness ==
    /\ call.api = "parseCsvt" /\ call.input = <<>> /\ errorMode = "substituteNull"
    /\ Len(call.result.errors) = 1 /\ call.result.errors[1].row = 1

\* C15 as stated: parseCsvtStream on a source that ends before delivering
\* anything throws a format error ('input empty') in strict mode, and in
\* collect and substituteNull mode yields no row and exactly one error, a
\* format error.
C15_EmptyStreamIsOneFormatError ==
    (sess.done /\ delivered = <<>> /\ sess.pc \in EndedPcs)
    => /\ YieldedRows(sess.out) = <<>>
       /\ IF errorMode = "strict"
          THEN sess.pc = "failed" /\ sess.threw.type = "format"
          ELSE /\ Len(YieldedErrors(sess.out)) = 1
               /\ YieldedErrors(sess.out)[1].type = "format"

\* C15 as the code has it: parseCsvtStream on a source that ends before
\* delivering anything completes in every error mode without an emission
\* and without an error, and releases the reader's lock.
C15_EmptyStreamCompletesSilently ==
    (sess.done /\ delivered = <<>>)
    => /\ sess.pc = "completed"
       /\ sess.out = <<>>
       /\ sess.threw = NoError
       /\ sess.headerError = NoError
       /\ sess.releases = 1

\* C15's case: the first read of a strict session found the source ended.
C15_Witness ==
    /\ errorMode = "strict" /\ sess.done /\ delivered = <<>>
    /\ sess.buffer = <<>> /\ sess.pc = "completed"

\* The text of a cycle call is valid CSVT: parseCsvt returned without error.
CycleValid ==
    call.api = "cycle" /\ call.first.threw = NoError /\ call.first.errors = <<>>

\* Writing the rows of a result and parsing them again gave the same rows,
\* without error.
SameRows(before, after) ==
    after.threw = NoError /\ after.errors = <<>> /\ after.data = before.data

\* C16: for every valid CSVT text, writing the parsed rows with the parsed
\* schema as explicit headers and parsing the output again returns the same
\* rows and schema with no errors, and a further write/parse cycle changes
\* nothing; header-only texts and non-null columns included.
C16_ParseWriteParseIsStable ==
    CycleValid
    => /\ SameRows(call.first, call.second)
       /\ call.second.headers = call.first.headers
       /\ call.third = call.second

\* The cycle is stable for every valid text that has at least one data row.
CycleStableWithRows ==
    (CycleValid /\ call.first.data # <<>>)
    => /\ SameRows(call.first, call.second)
       /\ call.second.headers = call.first.headers
       /\ call.third = call.second

\* The header field of the call was parsed back to the column it was
\* written for.
ParsedBack ==
    /\ call.result.error = NoError
    /\ Len(call.result.headers) = 1
    /\ call.result.headers[1].name = call.name
    /\ call.result.headers[1].type = call.type
    /\ call.result.headers[1].isNonNull = call.isNonNull

\* C17: for every non-empty column name (colons, delimiters, double quotes
\* and whitespace included) and every type token, with or without `!`, the
\* header field the writer produces is parsed back by parseHeaderLine to
\* exactly that name, that type and that non-null flag.
C17_HeaderFieldRoundTrip ==
    call.api = "parseHeaderLine" => ParsedBack

\* The header field is parsed back whenever the name neither starts nor ends
\* with whitespace.
HeaderFieldRoundTripUntrimmed ==
    (call.api = "parseHeaderLine" /\ Trim(call.name) = call.name) => ParsedBack

\* The chunks of a stream put together.
RECURSIVE Concat(_)
Concat(chunks) == IF chunks = <<>> THEN <<>> ELSE Head(chunks) \o Concat(Tail(chunks))

\* The type token of a type text: the text without a trailing `!`.
TypeToken(typeText) == typeText[1]

\* What a value is to be written as under a declared type: a Date as its
\* date part alone when the type is date, anything else as serializeValue has it.
DeclaredSerialization(value, typeText) ==
    IF value.t = "date" /\ TypeToken(typeText) = "date" THEN <<value.v[1]>>
    ELSE serializeValue(value)

\* The lines to be written for rows under explicit headers.
DeclaredLines(data, options) ==
    <<generateHeaderRow(options.headers, options.delimiter)>>
    \o [i \in DOMAIN data |->
          Join([j \in DOMAIN options.headers |->
                   escapeCsvField(DeclaredSerialization(
                                      Property(data[i], options.headers[j].name),
                                      options.headers[j].type),
                                  options.delimiter)],
               <<options.delimiter>>)]

\* Some column is declared date and some row has a Date in it.
DateDeclared ==
    \E j \in DOMAIN call.options.headers, i \in DOMAIN call.data :
        /\ TypeToken(call.options.headers[j].type) = "date"
        /\ Property(call.data[i], call.options.headers[j].name).t = "date"

\* Both writers wrote the lines as declared.
WrittenAsDeclared ==
    /\ call.text = Join(DeclaredLines(call.data, call.options), call.options.lineBreak)
    /\ call.chunks = [i \in DOMAIN DeclaredLines(call.data, call.options) |->
                         DeclaredLines(call.data, call.options)[i] \o call.options.lineBreak]

\* C18: under explicit headers writeCsvt and writeCsvtStream write a Date
\* in a column declared date as its date part alone (YYYY-MM-DD), and under
\* every other declared type as the full ISO-8601 text.
C18_DateColumnIsWrittenDateOnly ==
    (call.api = "write" /\ call.options.explicit /\ call.options.headers # <<>>)
    => WrittenAsDeclared

\* The other half holds: whenever no Date stands in a column declared date,
\* both writers write the lines as declared, a Date as its full ISO text.
WrittenAsDeclaredWithoutDateColumn ==
    (call.api = "write" /\ call.options.explicit /\ call.options.headers # <<>>
     /\ ~DateDeclared)
    => WrittenAsDeclared

\* The chunks of writeCsvtStream are writeCsvt's lines: the header line of
\* the headers determined from the options or the first row, once and
\* first, then one line per row, and together writeCsvt's text and one
\* line break.
StreamWritesWhatWriterWrites ==
    /\ Concat(call.chunks) = call.text \o call.options.lineBreak
    /\ Len(call.chunks) = Len(call.data) + 1
    /\ call.chunks[1] =
          generateHeaderRow(determineHeaders(call.data, call.options), call.options.delimiter)
          \o call.options.lineBreak

\* C19: for every non-empty sequence of rows (a first row without keys
\* included) and every options value, the chunks of writeCsvtStream put
\* together are the text of writeCsvt followed by one line break; the header
\* line is emitted once and first, for the schema given or inferred from the
\* first row alone.
C19_StreamWriterEqualsWriterPlusLineBreak ==
    call.api = "write" => StreamWritesWhatWriterWrites

\* The two writers agree whenever there is a column to write: explicit
\* headers that are not empty, or a first row that has a key.
WritersAgreeWithColumns ==
    (call.api = "write" /\ determineHeaders(call.data, call.options) # <<>>)
    => StreamWritesWhatWriterWrites

\* The lines of a text as written: cut at every line end.
PhysicalLines(text) == SplitLines(NormalizeLineEndings(text))

\* The data lines with a quoted field that is not closed on the line.
Unterminated(lines) ==
    {i \in 2..Len(lines) : Trim(lines[i]) # <<>> /\ splitCsvLine(lines[i], COMMA).threw}

\* The well-formed data lines that come after such a line.
WellFormedAfter(lines, headers) ==
    {j \in 2..Len(lines) :
        /\ Trim(lines[j]) # <<>>
        /\ ErrorFree(lines[j], headers)
        /\ \E i \in Unterminated(lines) : i < j}

\* The format errors that name row i.
FormatErrorsOfRow(errors, i) ==
    {k \in DOMAIN errors : errors[k].row = i /\ errors[k].type = "format"}

\* Each line with an unterminated quoted field has exactly one format error,
\* and the row of every well-formed line after it is there.
SurvivesUnterminated(lines, headers, rows, errors) ==
    /\ \A i \in Unterminated(lines) : Cardinality(FormatErrorsOfRow(errors, i)) = 1
    /\ \A j \in WellFormedAfter(lines, headers) :
          ConvertedRow(lines[j], headers) \in Range(rows)

\* The number of quote characters in a text.
QuoteCount(text) == Cardinality({i \in DOMAIN text : text[i] = QUOTE})

\* parseCsvt's half of C20.
ParseSurvivesUnterminated ==
    (call.api = "parseCsvt" /\ errorMode # "strict" /\ CallHeaders # <<>>)
    => SurvivesUnterminated(CallLines, CallHeaders, call.result.data, call.result.errors)

\* parseCsvtStream's half of C20, for the texts with a single quote
\* character: no later quote can be taken to close the field.
StreamSurvivesUnterminated ==
    (sess.pc = "completed" /\ errorMode # "strict" /\ sess.headers # <<>>
     /\ QuoteCount(delivered) = 1)
    => SurvivesUnterminated(PhysicalLines(delivered), sess.headers,
                            YieldedRows(sess.out), YieldedErrors(sess.out))

\* C20: in collect and substituteNull mode a data line with an unterminated
\* quoted field gives exactly one format error, of that line, and every
\* well-formed line after it is still parsed into its row, by parseCsvt and
\* by parseCsvtStream alike.
C20_UnterminatedQuoteCostsOneLine ==
    ParseSurvivesUnterminated /\ StreamSurvivesUnterminated

\* The position of the first newline of a text (there is one).
FirstNewline(text) ==
    CHOOSE i \in DOMAIN text : text[i] = LF /\ \A j \in 1..(i - 1) : text[j] # LF

\* splitCsvLine, having scanned text, is inside a quoted field: that is when
\* it throws for the unterminated quote.
SplitterInQuotes(text) == splitCsvLine(text, COMMA).threw

\* C21: the stream takes the first newline of its buffer to lie inside a
\* quoted value (it does not end the line there) exactly when splitCsvLine,
\* scanning the same text up to that newline, is in quoted state; so the
\* newline after a quote that is not the first character of its field, as
\* in a"b, still ends the logical line.
C21_ScannerAgreesWithSplitter ==
    (sess.headers # <<>> /\ Includes(sess.buffer, LF))
    => ((findUnquotedNewlineIndex(sess.buffer) # FirstNewline(sess.buffer))
        <=> SplitterInQuotes(SubSeq(sess.buffer, 1, FirstNewline(sess.buffer) - 1)))

\* The two agree on every buffer whose text before the first newline has no
\* quote: the newline ends the line and the splitter is outside quotes.
ScannerAgreesWithoutQuotes ==
    (sess.headers # <<>> /\ Includes(sess.buffer, LF)
     /\ ~Includes(SubSeq(sess.buffer, 1, FirstNewline(sess.buffer) - 1), QUOTE))
    => /\ findUnquotedNewlineIndex(sess.buffer) = FirstNewline(sess.buffer)
       /\ ~SplitterInQuotes(SubSeq(sess.buffer, 1, FirstNewline(sess.buffer) - 1))

\* Kind, row and column of each error of a list, in order.
WhereAll(errors) == [k \in DOMAIN errors |-> Where(errors[k])]

\* A non-strict session has read to the end a text that has no quote
\* character (so no line break inside a quoted field), after a header that
\* parses.
StreamedWholeUnquotedText ==
    /\ sess.pc = "completed" /\ errorMode # "strict" /\ sess.headers # <<>>
    /\ QuoteCount(delivered) = 0

\* C22: for a text with no line break inside a quoted field and a
\* non-strict error mode, the rows of all parseCsvtStream emissions put
\* together are the rows parseCsvt returns for the whole text, and the
\* errors put together are parseCsvt's errors: same kinds, columns, row
\* numbers and order.
C22_StreamEqualsEagerParse ==
    StreamedWholeUnquotedText
    => /\ YieldedRows(sess.out) = parseCsvt(delivered, errorMode).data
       /\ WhereAll(YieldedErrors(sess.out)) = WhereAll(parseCsvt(delivered, errorMode).errors)

\* In collect mode the rows are the same.
StreamRowsEqualEagerRowsInCollect ==
    (StreamedWholeUnquotedText /\ errorMode = "collect")
    => YieldedRows(sess.out) = parseCsvt(delivered, errorMode).data

\* The name of the call has a colon, and no whitespace at its ends (which
\* parseHeaderLine would trim).
ColonInName == Includes(call.name, COLON) /\ Trim(call.name) = call.name

\* The bare header field of the call was parsed as a column of that name, of
\* type string.
ParsedAsBareName ==
    /\ call.result.error = NoError
    /\ Len(call.result.headers) = 1
    /\ call.result.headers[1].name = call.name
    /\ call.result.headers[1].type = "string"
    /\ call.result.headers[1].isNonNull = call.isNonNull

\* With a type suffix, every colon inside the quotes stays in the name.
QuotedColonNameWithType ==
    (call.api = "parseHeaderLine" /\ ColonInName) => ParsedBack

\* C23: parseHeaderLine separates name from type only at a colon outside
\* the quoted part of a field: a quoted name containing a colon and no type
\* suffix is a bare name of type string, and with a type suffix every colon
\* inside the quotes stays in the name.
C23_ColonInsideQuotesIsPartOfName ==
    /\ (call.api = "parseBareHeader" /\ ColonInName) => ParsedAsBareName
    /\ QuotedColonNameWithType

\* A bare name without a colon is parsed as the claim says.
BareNameWithoutColon ==
    (call.api = "parseBareHeader" /\ ~Includes(call.name, COLON) /\ Trim(call.name) = call.name)
    => ParsedAsBareName

\* C24: parseHeaderLine returns either an error and no header, or no error
\* and a non-empty header list in which every name is non-empty, the names
\* are pairwise distinct, the i-th entry has columnIndex i and every type is
\* one of the seven lowercase type names; never a partial schema.
C24_HeaderResultIsAllOrNothing ==
    call.api = "headerLine"
    => IF call.result.error # NoError
       THEN call.result.headers = <<>>
       ELSE /\ call.result.headers # <<>>
            /\ \A i \in DOMAIN call.result.headers :
                  /\ call.result.headers[i].name # <<>>
                  /\ call.result.headers[i].columnIndex = i
                  /\ call.result.headers[i].type \in knownTypes
            /\ \A i, j \in DOMAIN call.result.headers :
                  i # j => call.result.headers[i].name # call.result.headers[j].name

\* C24's case: a line whose first field is a column and whose second field
\* is not was refused whole.
C24_Witness ==
    /\ call.api = "headerLine"
    /\ call.result.error # NoError /\ call.result.error.column = 2
    /\ call.result.headers = <<>>
    /\ headerField(splitCsvLine(call.headerLine, COMMA).fields[1], 1).error = NoError

\* The emissions that carry a row.
RowEmissions == {k \in DOMAIN sess.out : sess.out[k].data # <<>>}

Ahead == writer.pulled - writer.read

\* C26: writeCsvtStream takes rows from its source only on the consumer's
\* demand, for synchronous and asynchronous sources: the rows taken from the
\* source are never more than a fixed queue bound ahead of the data lines
\* the consumer has read, and once the consumer has cancelled the output
\* stream no further row is taken.
C26_WriterPullsOnDemand ==
    /\ [](writer.kind \in {"sync", "async"} /\ ~writer.cancelled => Ahead <= QueueBound)
    /\ [][writer.kind \in {"sync", "async"} /\ writer.cancelled
            => writer'.pulled = writer.pulled]_vars

\* For an asynchronous source the claim holds.
AsyncWriterPullsOnDemand ==
    /\ [](writer.kind = "async" /\ ~writer.cancelled => Ahead <= QueueBound)
    /\ [][writer.kind = "async" /\ writer.cancelled => writer'.pulled = writer.pulled]_vars

\* For a synchronous source no row is taken after the consumer cancels: all
\* of them have been taken at the start.
SyncWriterTakesAllAtStart ==
    (writer.kind = "sync" /\ writer.started) => (writer.remaining = 0 /\ writer.closed)

\* An optionally signed run of decimal digits: the decimal literals that can
\* be written with the characters of RawAlphabet, which has no decimal point
\* and no exponent mark.
DecimalLiteral(s) ==
    LET digits == IF s # <<>> /\ Head(s) \in {"+", "-"} THEN Tail(s) ELSE s
    IN  digits # <<>> /\ AllDigits(digits)

\* A validateAndConvert call on a number column whose cleaned value is not
\* empty.
NumberColumnCall ==
    /\ call.api = "validateAndConvert"
    /\ call.header.type = "number"
    /\ cleanCsvField(call.rawValue) # <<>>

\* C27: for a number column, validateAndConvert accepts a non-empty cleaned
\* value only if it is a decimal literal and returns a type error for every
\* other text, whitespace-only text and a number padded with spaces included.
C27_NumberColumnAcceptsOnlyDecimalLiterals ==
    NumberColumnCall =>
        IF DecimalLiteral(cleanCsvField(call.rawValue))
        THEN call.result.error = NoError
        ELSE call.result.error.type = "type"

\* What the code does instead: the cleaned value is accepted exactly when it
\* is a decimal literal after its surrounding whitespace is dropped, or is
\* nothing but whitespace, which converts to 0.
NumberColumnAcceptsTrimmedLiterals ==
    NumberColumnCall =>
        LET t == Trim(cleanCsvField(call.rawValue))
        IN  IF t = <<>> \/ DecimalLiteral(t)
            THEN call.result.error = NoError
            ELSE call.result.error.type = "type"

\* A whitespace-only value of a number column is converted to 0.
WhitespaceIsZero ==
    (NumberColumnCall /\ call.rawValue = <<SPACE>>) => call.result.value = NumberValue(0)

\* The line number of the k-th data line of the text read that is not blank.
NthDataRow(k) ==
    CHOOSE i \in ReadDataRows : Cardinality({j \in ReadDataRows : j <= i}) = k

\* The emission e is what the data line numbered i yields: at most one row,
\* errors when there is none, every error with the line's number, and the
\* line's row without errors when the line is error-free.
EmissionOfLine(e, i) ==
    /\ Len(e.data) <= 1
    /\ e.data = <<>> => e.errors # <<>>
    /\ \A err \in Range(e.errors) : err.row = i
    /\ ErrorFree(ReadLines[i], sess.headers)
          => e.data = <<ConvertedRow(ReadLines[i], sess.headers)>> /\ e.errors = <<>>

\* C28: in collect and substituteNull mode, after a successfully parsed
\* header, every non-blank logical data line produces exactly one emission
\* and blank lines none: the k-th emission is that of the k-th non-blank
\* data line (so emissions are in source order with strictly increasing row
\* numbers), it carries at most one row and, without a row, at least one
\* error, and a completed session has emitted once for each such line.
C28_OneEmissionPerDataLine ==
    (errorMode # "strict" /\ sess.headers # <<>>)
    => /\ Len(sess.out) <= Cardinality(ReadDataRows)
       /\ sess.pc = "completed" => Len(sess.out) = Cardinality(ReadDataRows)
       /\ \A k \in DOMAIN sess.out : EmissionOfLine(sess.out[k], NthDataRow(k))

\* A completed session over a blank line between two data lines, the second
\* of which yields errors and no row.
C28_Witness ==
    /\ errorMode # "strict" /\ sess.headers # <<>> /\ sess.pc = "completed"
    /\ Len(sess.out) = 2
    /\ 3 \in DOMAIN ReadLines /\ 3 \notin ReadDataRows /\ ReadDataRows = {2, 4}
    /\ sess.out[1].data # <<>>
    /\ sess.out[2].data = <<>> /\ sess.out[2].errors # <<>>

\* C29: for every list of one or more values and each delimiter, splitCsvLine
\* applied to the escaped values joined by the delimiter returns exactly as
\* many raw fields as there are values, and cleanCsvField of the i-th raw
\* field is the i-th value exactly: no whitespace trimmed, no quote lost or
\* added.
C29_EscapeJoinSplitCleanRoundTrip ==
    call.api = "splitJoin"
    => /\ ~call.threw
       /\ Len(call.rawFields) = Len(call.values)
       /\ call.cleaned = call.values

\* Two values come back from the round trip, the first a quote and a space
\* and the second the delimiter.
C29_Witness ==
    /\ call.api = "splitJoin"
    /\ call.values = <<<<QUOTE, SPACE>>, <<call.delimiter>>>>
    /\ call.cleaned = call.values

\* C30: for every finite sequence of chunks followed by the end of the
\* source and every error mode, a session that is pulled to completion
\* eventually ends, completed or failed; each pass of the line-extraction
\* loop strictly shortens the pending buffer; and the buffer of a session
\* that has completed, which is after the end of the source, is empty.
C30_PulledSessionEnds ==
    /\ <>(sess.pc \in {"completed", "returned", "failed"})
    /\ [][sess.pc = "lines" => Len(sess'.buffer) < Len(sess.buffer)]_vars
    /\ [](sess.pc = "completed" => sess.done /\ sess.buffer = <<>>)

\* In the inner loop a pass is always a step: it changes the session.
LinePassIsAStep ==
    sess.pc = "lines" => tryFinally(extractLine(sess, errorMode)) # sess

\* A session has completed whose last emission is for a last line without
\* a line break, taken from the buffer at the end of the source.
C30_Witness ==
    /\ sess.pc = "completed" /\ sess.done /\ sess.buffer = <<>>
    /\ sess.out # <<>>
    /\ Last(delivered) # LF
    /\ Len(ReadLines) >= 3

====
